---- MODULE Spec2Model ----
(***************************************************************************)
(* Model of the local LMDB explorer's HTTP API (src/src/index.ts): the     *)
(* registry of loaded databases as the search handler reads it, and the    *)
(* search handler with its per-request filter predicate and comparator.    *)
(*                                                                         *)
(* JavaScript strings are sequences of UTF-16 code units (naturals), so    *)
(* that toLowerCase, trim, Number(), String() and the relational operators *)
(* on strings are computed, not assumed.  JavaScript values are records    *)
(* [t, n, s]: t is the typeof tag, n the number (or the boolean as 0/1),   *)
(* s the string.                                                           *)
(***************************************************************************)
EXTENDS Integers, Sequences, FiniteSets, TLC

\* ------------------------------------------------------------------ bounds

\* Longest string drawn for a field value or a filter literal.
MaxStrLen == 2
\* Largest number drawn for a numeric field value.
MaxNum == 11
\* Most records held by the database, over all its sub-stores.
MaxRecords == 3
\* Largest explicit `limit` parameter of a search request.
MaxLimit == 2

\* ------------------------------------------------------- JavaScript values

Undefined == [t |-> "undefined", n |-> 0, s |-> <<>>]
Null == [t |-> "object", n |-> 0, s |-> <<>>]
Num(i) == [t |-> "number", n |-> i, s |-> <<>>]
Str(cs) == [t |-> "string", n |-> 0, s |-> cs]
Bool(b) == [t |-> "boolean", n |-> IF b THEN 1 ELSE 0, s |-> <<>>]

\* typeof v
TypeOf(v) == v.t

\* The code units used to build strings: "0", "1", " ", "A", "a".
Alphabet == {48, 49, 32, 65, 97}

RECURSIVE StringsOfLen(_)
StringsOfLen(k) ==
  IF k = 0 THEN {<<>>}
  ELSE {Append(p, c) : p \in StringsOfLen(k - 1), c \in Alphabet}

Strings == UNION {StringsOfLen(k) : k \in 0..MaxStrLen}

\* String.prototype.toLowerCase on the Latin letters.
LowerUnit(c) == IF c >= 65 /\ c <= 90 THEN c + 32 ELSE c
ToLowerCase(cs) == [i \in 1..Len(cs) |-> LowerUnit(cs[i])]

\* White space as String.prototype.trim and Number() strip it.
IsWhiteSpace(c) == c \in {9, 10, 11, 12, 13, 32}

RECURSIVE TrimStart(_)
TrimStart(cs) ==
  IF cs # <<>> /\ IsWhiteSpace(Head(cs)) THEN TrimStart(Tail(cs)) ELSE cs

RECURSIVE TrimEnd(_)
TrimEnd(cs) ==
  IF cs # <<>> /\ IsWhiteSpace(cs[Len(cs)])
  THEN TrimEnd(SubSeq(cs, 1, Len(cs) - 1))
  ELSE cs

\* String.prototype.trim
Trim(cs) == TrimEnd(TrimStart(cs))

IsDigit(c) == c >= 48 /\ c <= 57

\* The value of a run of decimal digits, read left to right.
RECURSIVE DigitsValue(_, _)
DigitsValue(cs, acc) ==
  IF cs = <<>> THEN acc
  ELSE DigitsValue(Tail(cs), 10 * acc + (Head(cs) - 48))

AllDigits(cs) == cs # <<>> /\ \A i \in 1..Len(cs) : IsDigit(cs[i])

\* Number(string) on strings of white space, a sign and decimal digits:
\* [nan, n].  The empty and the blank string convert to 0; anything that is
\* not an optionally signed run of digits converts to NaN.  (Fractions,
\* exponents, radix prefixes and "Infinity" need code units that are not in
\* Alphabet.)
Number(cs) ==
  LET t == Trim(cs) IN
  IF t = <<>> THEN [nan |-> FALSE, n |-> 0]
  ELSE IF Head(t) = 45 /\ AllDigits(Tail(t))
       THEN [nan |-> FALSE, n |-> 0 - DigitsValue(Tail(t), 0)]
  ELSE IF Head(t) = 43 /\ AllDigits(Tail(t))
       THEN [nan |-> FALSE, n |-> DigitsValue(Tail(t), 0)]
  ELSE IF AllDigits(t) THEN [nan |-> FALSE, n |-> DigitsValue(t, 0)]
  ELSE [nan |-> TRUE, n |-> 0]

\* The decimal digits of a natural number.
RECURSIVE NatToString(_)
NatToString(i) ==
  IF i < 10 THEN <<48 + i>>
  ELSE Append(NatToString(i \div 10), 48 + (i % 10))

\* String(v): "undefined", "null", "true", "false", the decimal numeral of
\* an integer, the string itself.
String(v) ==
  CASE v.t = "undefined" -> <<117, 110, 100, 101, 102, 105, 110, 101, 100>>
    [] v.t = "object" -> <<110, 117, 108, 108>>
    [] v.t = "boolean" ->
         IF v.n = 1 THEN <<116, 114, 117, 101>> ELSE <<102, 97, 108, 115, 101>>
    [] v.t = "number" ->
         IF v.n < 0 THEN <<45>> \o NatToString(0 - v.n) ELSE NatToString(v.n)
    [] OTHER -> v.s

\* a < b on strings: the order of the first differing code unit, a proper
\* prefix being smaller.
RECURSIVE StringLess(_, _)
StringLess(a, b) ==
  IF b = <<>> THEN FALSE
  ELSE IF a = <<>> THEN TRUE
  ELSE IF Head(a) # Head(b) THEN Head(a) < Head(b)
  ELSE StringLess(Tail(a), Tail(b))

\* ---------------------------------------------------------------- records

\* A record value is a document: a function from field names to values.
\* value[field] is undefined for a field the document does not have, as it
\* is for a record value that is a number, a string or a boolean (EmptyDoc
\* stands for these).  A record value of null, on which value[field] throws,
\* is not drawn.
Doc(fv) == [f \in {"price"} |-> fv]
EmptyDoc == [f \in {} |-> Undefined]
GetField(value, field) ==
  IF field \in DOMAIN value THEN value[field] ELSE Undefined

\* -------------------------------------------------------- filter predicate

\* The filter is installed only for a named field and a non-empty literal.
FilterActive(filterField, filterValue) ==
  filterField # "" /\ filterField # "__none__" /\ filterValue # <<>>

\* isNumeric: the literal converts to a number and is not blank.
IsNumeric(filterValue) ==
  ~Number(filterValue).nan /\ Trim(filterValue) # <<>>

\* An ordering operator on strings, as JavaScript's >, <, >=, <= on them.
StringRel(op, a, b) ==
  CASE op = ">" -> StringLess(b, a)
    [] op = "<" -> StringLess(a, b)
    [] op = ">=" -> ~StringLess(a, b)
    [] op = "<=" -> ~StringLess(b, a)

\* The same operators on numbers.
NumberRel(op, a, b) ==
  CASE op = ">" -> a > b
    [] op = "<" -> a < b
    [] op = ">=" -> a >= b
    [] op = "<=" -> a <= b

\* Mutant of OrderingCase: every field value is compared as text.
OrderingCaseTextOnly(op, fieldValue, filterValue) ==
  StringRel(op, String(fieldValue), filterValue)

\* Mutant of OrderingCase: a number field falls back to the comparison of
\* its text when the literal is not numeric.
OrderingCaseFallsBack(op, fieldValue, filterValue) ==
  IF TypeOf(fieldValue) = "number" /\ IsNumeric(filterValue)
  THEN NumberRel(op, fieldValue.n, Number(filterValue).n)
  ELSE StringRel(op, String(fieldValue), filterValue)

\* One ordering case of the switch: a number field compares numerically
\* with a numeric literal and matches nothing otherwise; any other field
\* value compares as a string.
OrderingCase(op, fieldValue, filterValue) ==
  IF TypeOf(fieldValue) = "number"
  THEN IF IsNumeric(filterValue)
       THEN NumberRel(op, fieldValue.n, Number(filterValue).n)
       ELSE FALSE
  ELSE StringRel(op, String(fieldValue), filterValue)

\* Mutant of EqualsCase: a string field is compared with its case.
EqualsCaseSensitive(fieldValue, filterValue) ==
  IF TypeOf(fieldValue) = "string"
  THEN fieldValue.s = filterValue
  ELSE IF IsNumeric(filterValue) /\ TypeOf(fieldValue) = "number"
       THEN fieldValue.n = Number(filterValue).n
       ELSE String(fieldValue) = filterValue

\* case "=":
EqualsCase(fieldValue, filterValue) ==
  IF TypeOf(fieldValue) = "string"
  THEN ToLowerCase(fieldValue.s) = ToLowerCase(filterValue)
  ELSE IF IsNumeric(filterValue) /\ TypeOf(fieldValue) = "number"
       THEN fieldValue.n = Number(filterValue).n
       ELSE String(fieldValue) = filterValue

\* case "!=":
NotEqualsCase(fieldValue, filterValue) ==
  IF TypeOf(fieldValue) = "string"
  THEN ToLowerCase(fieldValue.s) # ToLowerCase(filterValue)
  ELSE IF IsNumeric(filterValue) /\ TypeOf(fieldValue) = "number"
       THEN fieldValue.n # Number(filterValue).n
       ELSE String(fieldValue) # filterValue

\* Mutant of FilterPredicate: an operator the switch does not know matches
\* nothing.
FilterPredicateStrict(value, filterField, filterOperator, filterValue) ==
  LET fieldValue == GetField(value, filterField) IN
  CASE filterOperator = "=" -> EqualsCase(fieldValue, filterValue)
    [] filterOperator = "!=" -> NotEqualsCase(fieldValue, filterValue)
    [] filterOperator \in {">", "<", ">=", "<="} ->
         OrderingCase(filterOperator, fieldValue, filterValue)
    [] OTHER -> FALSE

\* The predicate put in searchOptions.filters.
FilterPredicate(value, filterField, filterOperator, filterValue) ==
  LET fieldValue == GetField(value, filterField) IN
  CASE filterOperator = "=" -> EqualsCase(fieldValue, filterValue)
    [] filterOperator = "!=" -> NotEqualsCase(fieldValue, filterValue)
    [] filterOperator \in {">", "<", ">=", "<="} ->
         OrderingCase(filterOperator, fieldValue, filterValue)
    [] OTHER -> TRUE

\* ----------------------------------------------------------- comparator

\* Collation keys of String.prototype.localeCompare in the default locale:
\* white space sorts before digits, digits before letters, letters by the
\* alphabet whatever their case (primary key); strings that differ only in
\* case are ordered lower case first (tertiary key).
PrimaryKey(c) ==
  IF IsWhiteSpace(c) THEN 0
  ELSE IF IsDigit(c) THEN 1000 + c
  ELSE IF LowerUnit(c) >= 97 /\ LowerUnit(c) <= 122 THEN 2000 + LowerUnit(c)
  ELSE 500 + c
TertiaryKey(c) == IF c >= 65 /\ c <= 90 THEN 1 ELSE 0

RECURSIVE KeyCompare(_, _)
KeyCompare(a, b) ==
  IF a = <<>> /\ b = <<>> THEN 0
  ELSE IF a = <<>> THEN -1
  ELSE IF b = <<>> THEN 1
  ELSE IF Head(a) < Head(b) THEN -1
  ELSE IF Head(a) > Head(b) THEN 1
  ELSE KeyCompare(Tail(a), Tail(b))

\* a.localeCompare(b): -1, 0 or 1.
LocaleCompare(a, b) ==
  LET p == KeyCompare([i \in 1..Len(a) |-> PrimaryKey(a[i])],
                      [i \in 1..Len(b) |-> PrimaryKey(b[i])])
  IN IF p # 0 THEN p
     ELSE KeyCompare([i \in 1..Len(a) |-> TertiaryKey(a[i])],
                     [i \in 1..Len(b) |-> TertiaryKey(b[i])])

\* Mutant of CompareAsc: the difference of two numbers is taken the other
\* way round.
CompareAscSubtrahendFirst(a, b, sortBy) ==
  LET aVal == GetField(a, sortBy)
      bVal == GetField(b, sortBy)
  IN IF TypeOf(aVal) = "string" /\ TypeOf(bVal) = "string"
     THEN LocaleCompare(aVal.s, bVal.s)
     ELSE IF TypeOf(aVal) = "number" /\ TypeOf(bVal) = "number"
          THEN bVal.n - aVal.n
          ELSE 0

\* The comparator installed for sortOrder === "asc".
CompareAsc(a, b, sortBy) ==
  LET aVal == GetField(a, sortBy)
      bVal == GetField(b, sortBy)
  IN IF TypeOf(aVal) = "string" /\ TypeOf(bVal) = "string"
     THEN LocaleCompare(aVal.s, bVal.s)
     ELSE IF TypeOf(aVal) = "number" /\ TypeOf(bVal) = "number"
          THEN aVal.n - bVal.n
          ELSE 0

\* Mutant of CompareDesc: strings are compared as for "asc".
CompareDescUnreversed(a, b, sortBy) ==
  LET aVal == GetField(a, sortBy)
      bVal == GetField(b, sortBy)
  IN IF TypeOf(aVal) = "string" /\ TypeOf(bVal) = "string"
     THEN LocaleCompare(aVal.s, bVal.s)
     ELSE IF TypeOf(aVal) = "number" /\ TypeOf(bVal) = "number"
          THEN bVal.n - aVal.n
          ELSE 0

\* Mutant of CompareDesc: a record without the field, or with a field that
\* is neither a string nor a number, is put after one that has either.
CompareDescOthersLast(a, b, sortBy) ==
  LET aVal == GetField(a, sortBy)
      bVal == GetField(b, sortBy)
      Sortable(v) == TypeOf(v) \in {"string", "number"}
  IN IF TypeOf(aVal) = "string" /\ TypeOf(bVal) = "string"
     THEN LocaleCompare(bVal.s, aVal.s)
     ELSE IF TypeOf(aVal) = "number" /\ TypeOf(bVal) = "number"
          THEN bVal.n - aVal.n
          ELSE IF Sortable(aVal) /\ ~Sortable(bVal) THEN -1
          ELSE IF ~Sortable(aVal) /\ Sortable(bVal) THEN 1
          ELSE 0

\* The comparator installed for any other sortOrder.
CompareDesc(a, b, sortBy) ==
  LET aVal == GetField(a, sortBy)
      bVal == GetField(b, sortBy)
  IN IF TypeOf(aVal) = "string" /\ TypeOf(bVal) = "string"
     THEN LocaleCompare(bVal.s, aVal.s)
     ELSE IF TypeOf(aVal) = "number" /\ TypeOf(bVal) = "number"
          THEN bVal.n - aVal.n
          ELSE 0

\* searchOptions.sort
Compare(a, b, sortBy, sortOrder) ==
  IF sortOrder = "asc" THEN CompareAsc(a, b, sortBy)
  ELSE CompareDesc(a, b, sortBy)

\* Whether a comparator is installed at all.
SortActive(sortBy) == sortBy # "" /\ sortBy # "__none__"

\* ------------------------------------------------------ the search library

Min(a, b) == IF a < b THEN a ELSE b
Take(seq, n) == SubSeq(seq, 1, Min(n, Len(seq)))

\* Whether q occurs in s.
Contains(s, q) ==
  \E i \in 0..(Len(s) - Len(q)) : SubSeq(s, i + 1, i + Len(q)) = q

\* deepSearch of the library: the query occurs, whatever its case, in the
\* text of some scalar of the record value; the empty query matches every
\* record value, also one without a scalar.
DeepMatches(value, query) ==
  \/ query = <<>>
  \/ \E f \in DOMAIN value :
       Contains(ToLowerCase(String(value[f])), ToLowerCase(query))

\* Whether a record passes the options' filter and deep search.
Passes(value, opts) ==
  /\ opts.hasFilter =>
       FilterPredicate(value, opts.filterField, opts.filterOperator,
                       opts.filterValue)
  /\ opts.deepSearch # <<>> => DeepMatches(value, opts.deepSearch)

\* Stable insertion of x into a sequence ordered by the comparator.  (The
\* order Array.prototype.sort gives under a comparator that is no consistent
\* order, as with values of mixed types, is the engine's own; insertion from
\* the right is one such order.)
RECURSIVE InsertSorted(_, _, _, _)
InsertSorted(sorted, x, sortBy, sortOrder) ==
  IF sorted = <<>> THEN <<x>>
  ELSE LET last == sorted[Len(sorted)] IN
       IF Compare(last.value, x.value, sortBy, sortOrder) > 0
       THEN Append(InsertSorted(SubSeq(sorted, 1, Len(sorted) - 1), x,
                                sortBy, sortOrder), last)
       ELSE Append(sorted, x)

RECURSIVE SortRecords(_, _, _)
SortRecords(seq, sortBy, sortOrder) ==
  IF seq = <<>> THEN <<>>
  ELSE InsertSorted(SortRecords(SubSeq(seq, 1, Len(seq) - 1), sortBy,
                                sortOrder),
                    seq[Len(seq)], sortBy, sortOrder)

\* search(subDb, options) of the library: up to options.limit candidate
\* records of the sub-store are fetched in key order; those of them that pass
\* the filters and the deep search are kept, ordered by the comparator when
\* there is one.
LibrarySearch(records, opts) ==
  LET Test(r) == Passes(r.value, opts)
      candidates == Take(records, opts.limit)
      matched == SelectSeq(candidates, Test)
  IN IF opts.hasSort
     THEN SortRecords(matched, opts.sortBy, opts.sortOrder)
     ELSE matched

\* ------------------------------------------------------------ the database

\* The sub-stores of the database in the order rootDb.getKeys() lists them:
\* "ad", "pr".
SubStoreNames == << <<97, 100>>, <<112, 114>> >>
StoreIds == 1..Len(SubStoreNames)

\* The native key of the i-th record of a sub-store: "k1", "k2", ...
NativeKey(i) == <<107, 48 + i>>

\* The field values the stored documents take.
StoredValues == {Num(2), Num(10), Str(<<97>>)}

RECURSIVE DocSeqs(_)
DocSeqs(k) ==
  IF k = 0 THEN {<<>>}
  ELSE {Append(p, Doc(v)) : p \in DocSeqs(k - 1), v \in StoredValues}

\* The contents a database can have: at most MaxRecords documents over its
\* sub-stores.
Databases ==
  {d \in [StoreIds -> UNION {DocSeqs(k) : k \in 0..MaxRecords}] :
     Len(d[1]) + Len(d[2]) <= MaxRecords}

\* The names and keys of the seeded database: sub-stores "ad" and "pr", keys
\* "k1", "k2", ... in each.
PlainNaming ==
  [names |-> SubStoreNames,
   keys |-> [i \in StoreIds |-> [n \in 1..MaxRecords |-> NativeKey(n)]]]

\* subDb.getRange(): the records of a sub-store in key order, given its keys
\* and its documents.
Records(keys, docs) ==
  [n \in 1..Len(docs) |-> [key |-> keys[n], value |-> docs[n]]]

\* ------------------------------------------------------------------- state

VARIABLES
  stores,           \* the database on disk: sub-store id -> documents
  naming,           \* its sub-store names and the native keys of its records
  activeDatabases,  \* the registry: database name -> configuration
  handles,          \* the root handles that load-database opened
  bookmarks,        \* the bookmark list
  bookmarksFile,    \* the bookmarks saved in BOOKMARKS_FILE
  request,          \* the request being served, if any
  response,         \* the response to it
  opened,           \* whether serving it opened a new root handle
  logged,           \* the sub-stores it logged as unreadable
  scanned,          \* the directories it scanned
  again,            \* the response it got when served just before, if it was
  call,             \* the arguments of a predicate or comparator evaluation
  ret,              \* its result
  tasks             \* the handlers of the requests received concurrently,
                    \* each at its await or done, in order of arrival

vars ==
  <<stores, naming, activeDatabases, handles, bookmarks, bookmarksFile,
    request, response, opened, logged, scanned, again, call, ret, tasks>>

\* const limit = parseInt(url.searchParams.get("limit") || "100")
DefaultLimit == 100
\* limit: limit * 10
OverFetch == 10
\* MDB_READERS_FULL, which the handler does not log.
ReadersFull == -30790

\* const DB_PATH = process.env.DB_PATH || "./data", as path segments.
DB_PATH == <<".", "data">>
\* A directory that holds no database.
OtherPath == <<"", "tmp", "other">>

DbNames == {"data", "shop", "other"}
NoConfig == [name |-> "", path |-> <<>>, collections |-> <<>>, dbHandle |-> 0]
NoResponse ==
  [route |-> "none", status |-> 0, error |-> <<>>, hasResults |-> FALSE,
   results |-> <<>>, count |-> 0]

\* x || y on strings
OrElse(x, y) == IF x = "" THEN y ELSE x

\* The sub-stores open({ path }) finds: the database at DB_PATH, and an
\* empty environment anywhere else.
StoresAt(path) ==
  IF path = DB_PATH THEN stores ELSE [i \in StoreIds |-> <<>>]
KeysAt(path) == IF path = DB_PATH THEN naming.names ELSE <<>>

\* Mutant of ComposeKey: the native key is returned as it is.
ComposeKeyUnprefixed(name, key) == key

\* `${String(key)}:${record.key}`
ComposeKey(name, key) == name \o <<58>> \o key

\* results.push({ key: ..., value: record.value }) for each record found
PrefixAll(name, found) ==
  [i \in 1..Len(found) |->
     [key |-> ComposeKey(name, found[i].key), value |-> found[i].value]]

\* Mutant of Collect: the first sub-store that throws ends the loop.
RECURSIVE CollectUntilThrow(_, _, _, _, _)
CollectUntilThrow(keys, content, opts, subThrows, i) ==
  IF i > Len(keys) \/ subThrows[i] # 0 THEN <<>>
  ELSE PrefixAll(keys[i],
                 LibrarySearch(Records(naming.keys[i], content[i]), opts))
       \o CollectUntilThrow(keys, content, opts, subThrows, i + 1)

\* Mutant of Collect: the records collected are sorted together, across the
\* sub-stores.
RECURSIVE CollectSortedAcross(_, _, _, _, _)
CollectSortedAcross(keys, content, opts, subThrows, i) ==
  IF i > Len(keys) THEN <<>>
  ELSE LET here == IF subThrows[i] # 0 THEN <<>>
                   ELSE PrefixAll(keys[i],
                                  LibrarySearch(Records(naming.keys[i],
                                                        content[i]), opts))
           all == here \o CollectSortedAcross(keys, content, opts, subThrows,
                                              i + 1)
       IN IF opts.hasSort THEN SortRecords(all, opts.sortBy, opts.sortOrder)
          ELSE all

\* The loop over the sub-stores: a sub-store that throws is skipped, the
\* others' records are appended in enumeration order.
RECURSIVE Collect(_, _, _, _, _)
Collect(keys, content, opts, subThrows, i) ==
  IF i > Len(keys) THEN <<>>
  ELSE (IF subThrows[i] # 0 THEN <<>>
        ELSE PrefixAll(keys[i],
                       LibrarySearch(Records(naming.keys[i], content[i]),
                                     opts)))
       \o Collect(keys, content, opts, subThrows, i + 1)

\* The sub-stores whose failure is logged: every one but a reader-slot
\* exhaustion.
RECURSIVE Logged(_, _, _)
Logged(keys, subThrows, i) ==
  IF i > Len(keys) THEN <<>>
  ELSE (IF subThrows[i] # 0 /\ subThrows[i] # ReadersFull
        THEN <<keys[i]>> ELSE <<>>)
       \o Logged(keys, subThrows, i + 1)

\* const limit = parseInt(url.searchParams.get("limit") || "100")
LimitOf(req) == IF req.limit = 0 THEN DefaultLimit ELSE req.limit

\* Mutant of SearchOptions: a request without query text deep-searches for
\* "*".
SearchOptionsDefaultQuery(req) ==
  [limit |-> LimitOf(req) * OverFetch,
   hasFilter |-> FilterActive(req.filterField, req.filterValue),
   filterField |-> req.filterField,
   filterOperator |-> OrElse(req.filterOperator, "="),
   filterValue |-> req.filterValue,
   deepSearch |-> IF req.query = <<>> THEN <<42>> ELSE req.query,
   hasSort |-> SortActive(req.sortBy),
   sortBy |-> req.sortBy,
   sortOrder |-> OrElse(req.sortOrder, "asc")]

\* The options handed to the library, from the parameters of the request as
\* the handler defaults them.
SearchOptions(req) ==
  [limit |-> LimitOf(req) * OverFetch,
   hasFilter |-> FilterActive(req.filterField, req.filterValue),
   filterField |-> req.filterField,
   filterOperator |-> OrElse(req.filterOperator, "="),
   filterValue |-> req.filterValue,
   deepSearch |-> req.query,
   hasSort |-> SortActive(req.sortBy),
   sortBy |-> req.sortBy,
   sortOrder |-> OrElse(req.sortOrder, "asc")]

\* Mutant of ApplyLimit: nothing is cut.
ApplyLimitNone(results, limit) == results

\* const limitedResults = results.slice(0, limit)
ApplyLimit(results, limit) == Take(results, limit)

\* Mutant of ReadFailure: the cause is left out of the message.
ReadFailureWithoutCause(cause) ==
  [route |-> "search", status |-> 200,
   error |-> <<"Failed to read database">>,
   hasResults |-> TRUE, results |-> <<>>, count |-> 0]

\* The response of the catch around open() and getKeys(): the cause in the
\* message, no record.
ReadFailure(cause) ==
  [route |-> "search", status |-> 200,
   error |-> <<"Failed to read database: ", cause>>,
   hasResults |-> TRUE, results |-> <<>>, count |-> 0]

\* Mutant of Respond: count is taken before the results are cut.
RespondCountingAll(results, limit) ==
  LET limitedResults == ApplyLimit(results, limit) IN
  [route |-> "search", status |-> 200, error |-> <<>>,
   hasResults |-> TRUE, results |-> limitedResults,
   count |-> Len(results)]

\* The response of a search that read the database: the results cut to the
\* limit and their number.
Respond(results, limit) ==
  LET limitedResults == ApplyLimit(results, limit) IN
  [route |-> "search", status |-> 200, error |-> <<>>,
   hasResults |-> TRUE, results |-> limitedResults,
   count |-> Len(limitedResults)]

\* Mutant of Cached: the stored handle is never taken.
CachedNever(dbConfig) == FALSE

\* dbConfig?.dbHandle: whether the registry holds a root handle to reuse.
Cached(dbConfig) == dbConfig.dbHandle # 0

\* Mutant of SearchLeaves: the handle read through is closed after use, as
\* listCollections closes its own.
SearchLeavesClosed(registry, table, dbName, dbPath) ==
  [registry |-> registry,
   handles |-> IF registry[dbName].dbHandle # 0
               THEN [table EXCEPT ![registry[dbName].dbHandle].closed = TRUE]
               ELSE table]

\* Mutant of SearchLeaves: a database read without a stored handle is put in
\* the registry under the path it was read at.
SearchLeavesRegistered(registry, table, dbName, dbPath) ==
  IF registry[dbName].dbHandle # 0
  THEN [registry |-> registry, handles |-> table]
  ELSE [registry |->
          [registry EXCEPT ![dbName] =
             [name |-> dbName, path |-> dbPath, collections |-> <<>>,
              dbHandle |-> 0]],
        handles |-> table]

\* The registry and the handles of load-database after a search: the handler
\* only reads the registry (activeDatabases.get) and closes nothing.
SearchLeaves(registry, table, dbName, dbPath) ==
  [registry |-> registry, handles |-> table]

\* GET /api/databases/:dbName/search.  openThrows and keysThrows are the
\* errors open() and getKeys() raise ("" for none), subThrows the error code
\* each sub-store raises (0 for none); the registry is read, never written.
\* A stored handle is used as it is, whatever the path parameter says, and
\* getKeys() throws on one that was closed.
SearchResponse(registry, req) ==
  LET dbConfig == registry[req.dbName]
      dbPath == IF req.customPath # <<>> THEN req.customPath
                ELSE IF dbConfig.path # <<>> THEN dbConfig.path
                ELSE DB_PATH
      cached == Cached(dbConfig)
      left == SearchLeaves(registry, handles, req.dbName, dbPath)
      readPath == IF cached THEN dbConfig.path ELSE dbPath
      keys == KeysAt(readPath)
      results == Collect(keys, StoresAt(readPath), SearchOptions(req),
                         req.subThrows, 1)
  IN IF ~cached /\ req.openThrows # ""
     THEN [out |-> ReadFailure(req.openThrows), opened |-> FALSE,
           logged |-> <<>>, registry |-> left.registry,
           handles |-> left.handles]
     ELSE IF cached /\ handles[dbConfig.dbHandle].closed
     THEN [out |-> ReadFailure("closed"), opened |-> FALSE, logged |-> <<>>,
           registry |-> left.registry, handles |-> left.handles]
     ELSE IF req.keysThrows # ""
     THEN [out |-> ReadFailure(req.keysThrows), opened |-> ~cached,
           logged |-> <<>>, registry |-> left.registry,
           handles |-> left.handles]
     ELSE [out |-> Respond(results, LimitOf(req)), opened |-> ~cached,
           logged |-> Logged(keys, req.subThrows, 1),
           registry |-> left.registry, handles |-> left.handles]

\* ------------------------------------------------------- the search requests

NoRequest == [route |-> "none"]

\* The filter parameters drawn: none, "__none__", an empty literal,
\* price = A, price > 9, price ~ 9.
FilterParams ==
  {[filterField |-> "", filterOperator |-> "", filterValue |-> <<>>],
   [filterField |-> "__none__", filterOperator |-> ">", filterValue |-> <<57>>],
   [filterField |-> "price", filterOperator |-> "", filterValue |-> <<65>>],
   [filterField |-> "price", filterOperator |-> ">", filterValue |-> <<57>>],
   [filterField |-> "price", filterOperator |-> "~", filterValue |-> <<57>>]}

\* The sort parameters drawn: none, ascending (by default), descending.
SortParams ==
  {[sortBy |-> "", sortOrder |-> ""],
   [sortBy |-> "price", sortOrder |-> ""],
   [sortBy |-> "price", sortOrder |-> "desc"]}

\* The query texts drawn: none, "a".
Queries == {<<>>, <<97>>}

\* The limit parameters drawn: 0 stands for a request without one.
Limits == 0..MaxLimit

\* What the storage engine raises while the request is served: the root
\* store fails to open or to list its sub-stores, or one sub-store or both
\* fail, with the reader-slot code or with another (-1).
Failures ==
  {[openThrows |-> "EACCES", keysThrows |-> "",
    subThrows |-> [i \in StoreIds |-> 0]],
   [openThrows |-> "", keysThrows |-> "MDB_BAD_TXN",
    subThrows |-> [i \in StoreIds |-> 0]]}
  \cup {[openThrows |-> "", keysThrows |-> "", subThrows |-> t] :
          t \in {<<0, 0>>, <<ReadersFull, 0>>, <<0, -1>>, <<-1, ReadersFull>>}}

\* The databases asked for: the one at DB_PATH by its name, without and with
\* a path parameter.
Targets ==
  {[dbName |-> "data", customPath |-> <<>>],
   [dbName |-> "data", customPath |-> OtherPath]}

SearchRequests ==
  {[route |-> "search", dbName |-> t.dbName, customPath |-> t.customPath,
    query |-> q, filterField |-> f.filterField,
    filterOperator |-> f.filterOperator, filterValue |-> f.filterValue,
    sortBy |-> s.sortBy, sortOrder |-> s.sortOrder, limit |-> l,
    openThrows |-> e.openThrows, keysThrows |-> e.keysThrows,
    subThrows |-> e.subThrows] :
     t \in Targets, q \in Queries, f \in FilterParams, s \in SortParams,
     l \in Limits, e \in Failures}

\* The registry after startup, and after the database at DB_PATH was loaded.
EmptyRegistry == [n \in DbNames |-> NoConfig]
LoadedRegistry ==
  [n \in DbNames |->
     IF n = "data"
     THEN [name |-> "data", path |-> DB_PATH, collections |-> SubStoreNames,
           dbHandle |-> 1]
     ELSE NoConfig]

\* The handles behind a registry: the handle of LoadedRegistry is open on the
\* database at DB_PATH.
HandlesOf(registry) ==
  IF registry = LoadedRegistry
  THEN <<[path |-> DB_PATH, closed |-> FALSE]>>
  ELSE <<>>

\* ----------------------------------------------------------------- actions

Init ==
  /\ stores \in Databases
  /\ naming = PlainNaming
  /\ activeDatabases \in {EmptyRegistry, LoadedRegistry}
  /\ handles = HandlesOf(activeDatabases)
  /\ bookmarks = <<>>
  /\ bookmarksFile = <<>>
  /\ scanned = <<>>
  /\ again = <<>>
  /\ request = NoRequest
  /\ response = NoResponse
  /\ opened = FALSE
  /\ logged = <<>>
  /\ call = <<>>
  /\ ret = <<>>
  /\ tasks = <<>>

\* The search handler serves one request.
Search ==
  /\ request = NoRequest
  /\ \E req \in SearchRequests :
       /\ request' = req
       /\ LET served == SearchResponse(activeDatabases, req) IN
            /\ response' = served.out
            /\ opened' = served.opened
            /\ logged' = served.logged
            /\ activeDatabases' = served.registry
            /\ handles' = served.handles
  /\ UNCHANGED <<stores, naming, bookmarks, bookmarksFile, scanned, again,
                 call, ret, tasks>>

\* The response is sent and the exchange is over.
Deliver ==
  /\ request # NoRequest
  /\ request' = NoRequest
  /\ response' = NoResponse
  /\ opened' = FALSE
  /\ logged' = <<>>
  /\ scanned' = <<>>
  /\ again' = <<>>
  /\ UNCHANGED <<stores, naming, activeDatabases, handles, bookmarks,
                 bookmarksFile, call, ret, tasks>>

Next == Search \/ Deliver

Spec == Init /\ [][Next]_vars

\* ------------------------------------------- searches of sortable records

\* The documents drawn to be sorted: prices 2 and 10, names "a", "A" and "1",
\* and a document without the field.
SortedDocuments ==
  {Doc(Num(2)), Doc(Num(10)), Doc(Str(<<97>>)), Doc(Str(<<65>>)),
   Doc(Str(<<49>>)), EmptyDoc}

RECURSIVE SortedDocSeqs(_)
SortedDocSeqs(k) ==
  IF k = 0 THEN {<<>>}
  ELSE {Append(p, d) : p \in SortedDocSeqs(k - 1), d \in SortedDocuments}

SortedDatabases ==
  {d \in [StoreIds -> UNION {SortedDocSeqs(k) : k \in 0..MaxRecords}] :
     Len(d[1]) + Len(d[2]) <= MaxRecords}

\* The requests drawn: every sort parameter and limit, no filter and no
\* query, every sub-store readable or the first one not.
SortedRequests ==
  {[route |-> "search", dbName |-> "data", customPath |-> <<>>,
    query |-> <<>>, filterField |-> "", filterOperator |-> "",
    filterValue |-> <<>>, sortBy |-> s.sortBy, sortOrder |-> s.sortOrder,
    limit |-> l, openThrows |-> "", keysThrows |-> "", subThrows |-> t] :
     s \in SortParams \cup {[sortBy |-> "price", sortOrder |-> "asc"]},
     l \in Limits, t \in {<<0, 0>>, <<-1, 0>>}}

InitSorted ==
  /\ stores \in SortedDatabases
  /\ naming = PlainNaming
  /\ activeDatabases \in {EmptyRegistry, LoadedRegistry}
  /\ handles = HandlesOf(activeDatabases)
  /\ bookmarks = <<>>
  /\ bookmarksFile = <<>>
  /\ scanned = <<>>
  /\ again = <<>>
  /\ request = NoRequest
  /\ response = NoResponse
  /\ opened = FALSE
  /\ logged = <<>>
  /\ call = <<>>
  /\ ret = <<>>
  /\ tasks = <<>>

\* The search handler serves one of these requests.
SearchSorted ==
  /\ request = NoRequest
  /\ \E req \in SortedRequests :
       /\ request' = req
       /\ LET served == SearchResponse(activeDatabases, req) IN
            /\ response' = served.out
            /\ opened' = served.opened
            /\ logged' = served.logged
            /\ activeDatabases' = served.registry
            /\ handles' = served.handles
  /\ UNCHANGED <<stores, naming, bookmarks, bookmarksFile, scanned, again,
                 call, ret, tasks>>

NextSorted == SearchSorted \/ Deliver

SpecSorted == InitSorted /\ [][NextSorted]_vars

\* ------------------------------------------- searches of a large sub-store

\* Most records held by the large sub-store: one more than limit * 10 for
\* limit 1.
MaxStored == 11

\* The native key of the n-th record of the large sub-store: "k01", "k02",
\* ...
PaddedKey(n) == <<107, 48 + (n \div 10), 48 + (n % 10)>>

\* The names and keys of a database whose sub-stores hold up to MaxStored
\* records.
LargeNaming ==
  [names |-> SubStoreNames,
   keys |-> [i \in StoreIds |-> [n \in 1..MaxStored |-> PaddedKey(n)]]]

\* The documents of the large sub-store: prices 2 and 10.
RECURSIVE PricedDocSeqs(_)
PricedDocSeqs(k) ==
  IF k = 0 THEN {<<>>}
  ELSE {Append(p, d) : p \in PricedDocSeqs(k - 1),
                       d \in {Doc(Num(2)), Doc(Num(10))}}

\* The databases with a large first sub-store: more records than limit * 10
\* for limit 1, and one record or none in the second sub-store.
LargeDatabases ==
  {<<big, small>> :
     big \in UNION {PricedDocSeqs(k) : k \in (MaxStored - 1)..MaxStored},
     small \in {<<>>, <<Doc(Num(10))>>}}

\* The requests drawn: limit 1 or 2, no filter or price = 10, no sort or
\* ascending, no query.
LargeRequests ==
  {[route |-> "search", dbName |-> "data", customPath |-> <<>>,
    query |-> <<>>, filterField |-> f.filterField,
    filterOperator |-> f.filterOperator, filterValue |-> f.filterValue,
    sortBy |-> sb, sortOrder |-> "", limit |-> l,
    openThrows |-> "", keysThrows |-> "", subThrows |-> <<0, 0>>] :
     f \in {[filterField |-> "", filterOperator |-> "", filterValue |-> <<>>],
            [filterField |-> "price", filterOperator |-> "=",
             filterValue |-> <<49, 48>>]},
     sb \in {"", "price"}, l \in {1, 2}}

InitLarge ==
  /\ stores \in LargeDatabases
  /\ naming = LargeNaming
  /\ activeDatabases = EmptyRegistry
  /\ handles = <<>>
  /\ bookmarks = <<>>
  /\ bookmarksFile = <<>>
  /\ scanned = <<>>
  /\ again = <<>>
  /\ request = NoRequest
  /\ response = NoResponse
  /\ opened = FALSE
  /\ logged = <<>>
  /\ call = <<>>
  /\ ret = <<>>
  /\ tasks = <<>>

\* The search handler serves one of these requests.
SearchLarge ==
  /\ request = NoRequest
  /\ \E req \in LargeRequests :
       /\ request' = req
       /\ LET served == SearchResponse(activeDatabases, req) IN
            /\ response' = served.out
            /\ opened' = served.opened
            /\ logged' = served.logged
            /\ activeDatabases' = served.registry
            /\ handles' = served.handles
  /\ UNCHANGED <<stores, naming, bookmarks, bookmarksFile, scanned, again,
                 call, ret, tasks>>

NextLarge == SearchLarge \/ Deliver

SpecLarge == InitLarge /\ [][NextLarge]_vars

\* -------------------------------------------------------------- the server

\* Most root handles load-database requests open in one run.
MaxLoads == 2

\* A file, and a path at which there is nothing.
FilePath == <<".", "bookmarks.json">>
MissingPath == <<"", "nope">>

\* stats.isDirectory() of stat(path), false when stat throws.
IsDirectory(path) == path \in {<<".">>, DB_PATH, OtherPath}

\* absolutePath.split('/').pop()
LastSegment(path) == path[Len(path)]

\* const dbName = name || absolutePath.split('/').pop() || "database"
DbNameOf(name, path) ==
  IF name # "" THEN name
  ELSE IF LastSegment(path) # "" THEN LastSegment(path)
  ELSE "database"

\* Mutant of CloseOld: the old handle is left open.
CloseOldNever(table, oldConfig) == table

\* Mutant of CloseOld: the handle just opened is closed in place of the old
\* one.
CloseNewest(table, oldConfig) ==
  IF oldConfig.dbHandle # 0
  THEN [table EXCEPT ![Len(table)].closed = TRUE]
  ELSE table

\* oldConfig.dbHandle.close(), when there is an old handle.
CloseOld(table, oldConfig) ==
  IF oldConfig.dbHandle # 0
  THEN [table EXCEPT ![oldConfig.dbHandle].closed = TRUE]
  ELSE table

\* An error response of the load-database, bookmark and scan handlers.
ErrorResponse(route, status, error) ==
  [route |-> route, status |-> status, error |-> error]

\* Mutant of LoadFails: a load answered with an error closes every handle
\* opened before it.
LoadFailsClosing(registry, table, out, didOpen) ==
  [out |-> out, registry |-> registry,
   handles |-> [h \in 1..Len(table) |->
                  IF h < Len(table) \/ ~didOpen
                  THEN [table[h] EXCEPT !.closed = TRUE]
                  ELSE table[h]],
   opened |-> didOpen]

\* A return of load-database with an error response: the handler has neither
\* reached activeDatabases.set nor oldConfig.dbHandle.close(); the table holds
\* the handle it opened, if it opened one.
LoadFails(registry, table, out, didOpen) ==
  [out |-> out, registry |-> registry, handles |-> table,
   opened |-> didOpen]

\* POST /api/load-database with body { path, name }: the response, the
\* registry and the handles after it, and whether it opened a root handle.
\* openThrows and keysThrows are the errors open() and getKeys() raise ("" for
\* none); a body that is no JSON object makes req.json() or the destructuring
\* throw.
LoadResponse(registry, table, req) ==
  LET unchanged(out, didOpen, tbl) == LoadFails(registry, tbl, out, didOpen)
      absolutePath == req.path
      rootDb == Len(table) + 1
      withRoot == Append(table, [path |-> absolutePath, closed |-> FALSE])
      collections == KeysAt(absolutePath)
      dbName == DbNameOf(req.name, absolutePath)
      oldConfig == registry[dbName]
      config == [name |-> dbName, path |-> absolutePath,
                 collections |-> collections, dbHandle |-> rootDb]
  IN IF ~req.json
     THEN unchanged(ErrorResponse("load", 500, <<"SyntaxError">>), FALSE,
                    table)
     ELSE IF req.path = <<>>
     THEN unchanged(ErrorResponse("load", 400, <<"Path is required">>),
                    FALSE, table)
     ELSE IF ~IsDirectory(absolutePath)
     THEN unchanged(ErrorResponse("load", 400,
                      <<"Database path does not exist or is not a directory: ",
                        absolutePath>>),
                    FALSE, table)
     ELSE IF req.openThrows # ""
     THEN unchanged(ErrorResponse("load", 400,
                      <<"Invalid LMDB database: ", req.openThrows>>),
                    FALSE, table)
     ELSE IF req.keysThrows # ""
     THEN unchanged(ErrorResponse("load", 400,
                      <<"Invalid LMDB database: ", req.keysThrows>>),
                    TRUE, withRoot)
     ELSE [out |-> [route |-> "load", status |-> 200, error |-> <<>>,
                    message |-> "Database loaded successfully",
                    database |-> [name |-> dbName, path |-> absolutePath,
                                  collections |-> collections]],
           registry |-> [registry EXCEPT ![dbName] = config],
           handles |-> CloseOld(withRoot, oldConfig),
           opened |-> TRUE]

\* The load-database requests drawn: no path, no directory at the path, the
\* database at DB_PATH and an empty directory, with and without a name, the
\* store opening or not, listing its sub-stores or not.
LoadRequests ==
  {[route |-> "load", json |-> TRUE, path |-> p, name |-> n,
    openThrows |-> e.openThrows, keysThrows |-> e.keysThrows] :
     p \in {<<>>, FilePath, MissingPath, DB_PATH, OtherPath},
     n \in {"", "shop"},
     e \in {[openThrows |-> "", keysThrows |-> ""],
            [openThrows |-> "MDB_INVALID", keysThrows |-> ""],
            [openThrows |-> "", keysThrows |-> "MDB_BAD_TXN"]}}
  \cup {[route |-> "load", json |-> FALSE, path |-> <<>>, name |-> "",
          openThrows |-> "", keysThrows |-> ""]}

\* Most bookmarks added in one run.
MaxBookmarks == 1

\* new Date().toISOString() at the time of the request.
Instants == {"2026-01-01T00:00:00.000Z"}

\* Mutant of Bookmarked: no path is found in the list.
BookmarkedNever(list, path) == FALSE

\* bookmarks.find((b) => b.path === path)
Bookmarked(list, path) == \E k \in 1..Len(list) : list[k].path = path

\* POST /api/bookmarks with body { path, name }: the response, the list and
\* the file after it.  saveThrows is the error Bun.write raises ("" for none):
\* the bookmark is pushed before the list is saved.
BookmarkResponse(list, file, req) ==
  LET bookmark == [name |-> DbNameOf(req.name, req.path), path |-> req.path,
                   createdAt |-> req.now]
      pushed == Append(list, bookmark)
  IN IF ~req.json
     THEN [out |-> ErrorResponse("bookmark", 500, <<"SyntaxError">>),
           bookmarks |-> list, file |-> file]
     ELSE IF req.path = <<>>
     THEN [out |-> ErrorResponse("bookmark", 400, <<"Path is required">>),
           bookmarks |-> list, file |-> file]
     ELSE IF Bookmarked(list, req.path)
     THEN [out |-> ErrorResponse("bookmark", 400, <<"Already bookmarked">>),
           bookmarks |-> list, file |-> file]
     ELSE IF req.saveThrows # ""
     THEN [out |-> ErrorResponse("bookmark", 500, <<req.saveThrows>>),
           bookmarks |-> pushed, file |-> file]
     ELSE [out |-> [route |-> "bookmark", status |-> 200, error |-> <<>>,
                    bookmark |-> bookmark],
           bookmarks |-> pushed, file |-> pushed]

\* The add-bookmark requests drawn.
BookmarkRequests ==
  {[route |-> "bookmark", json |-> TRUE, path |-> p, name |-> n, now |-> t,
    saveThrows |-> e] :
     p \in {<<>>, DB_PATH, OtherPath}, n \in {"", "shop"}, t \in Instants,
     e \in {"", "ENOSPC"}}
  \cup {[route |-> "bookmark", json |-> FALSE, path |-> <<>>, name |-> "",
          now |-> t, saveThrows |-> ""] : t \in Instants}

\* process.env.HOME, as path segments.
Home == <<"", "home">>

\* expandPath: a leading ~ becomes the home directory.
ExpandPath(path) ==
  IF path # <<>> /\ Head(path) = "~" THEN Home \o Tail(path) ELSE path

\* join(expandedDir, entry.name), which drops the "." segments.
Join(dir, name) ==
  LET NotDot(seg) == seg # "." IN SelectSeq(Append(dir, name), NotDot)

\* readdir(dir, { withFileTypes: true }) on the file system of the run: the
\* working directory with the database directory in it, an empty directory
\* and the home directory.  On anything else readdir throws.
Listable(dir) == dir \in {<<".">>, DB_PATH, <<"data">>, OtherPath, Home}
Entries(dir) ==
  IF dir = <<".">>
  THEN <<[name |-> "bookmarks.json", isDirectory |-> FALSE],
         [name |-> "data", isDirectory |-> TRUE]>>
  ELSE IF dir \in {DB_PATH, <<"data">>}
  THEN <<[name |-> "data.mdb", isDirectory |-> FALSE],
         [name |-> "lock.mdb", isDirectory |-> FALSE]>>
  ELSE <<>>

\* entry.name.endsWith('.mdb'), of the names on that file system.
EndsWithMdb(name) == name \in {"data.mdb", "lock.mdb"}

\* findMdbFiles(dir, found): the files found and the directories read, added
\* to those of acc; a directory that cannot be read is logged and adds none.
RECURSIVE FindMdbFiles(_, _)
RECURSIVE ScanEntries(_, _, _, _)
ScanEntries(dir, entries, k, acc) ==
  IF k > Len(entries) THEN acc
  ELSE LET entry == entries[k]
           fullPath == Join(dir, entry.name)
           next == IF entry.isDirectory THEN FindMdbFiles(fullPath, acc)
                   ELSE IF EndsWithMdb(entry.name)
                   THEN [acc EXCEPT !.found =
                           Append(@, [path |-> dir, name |-> entry.name])]
                   ELSE acc
       IN ScanEntries(dir, entries, k + 1, next)
FindMdbFiles(dir, acc) ==
  LET expandedDir == ExpandPath(dir)
      read == [acc EXCEPT !.scanned = Append(@, expandedDir)]
  IN IF Listable(expandedDir)
     THEN ScanEntries(expandedDir, Entries(expandedDir), 1, read)
     ELSE read

RECURSIVE ScanAll(_, _, _)
ScanAll(directories, k, acc) ==
  IF k > Len(directories) THEN acc
  ELSE ScanAll(directories, k + 1, FindMdbFiles(directories[k], acc))

\* for (const dir of directories): the response of the loop, which throws on
\* a value that cannot be iterated.
ScanLoop(req) ==
  LET all == ScanAll(req.directories, 1, [found |-> <<>>, scanned |-> <<>>])
  IN IF req.kind = "undefined"
     THEN [out |-> ErrorResponse("scan", 500, <<"TypeError">>),
           scanned |-> <<>>]
     ELSE [out |-> [route |-> "scan", status |-> 200, error |-> <<>>,
                    databases |-> all.found],
           scanned |-> all.scanned]

\* Mutant of ScanResponse: `directories` is not tested for being an array.
ScanResponseUnchecked(req) ==
  IF ~req.json
  THEN [out |-> ErrorResponse("scan", 500, <<"SyntaxError">>),
        scanned |-> <<>>]
  ELSE ScanLoop(req)

\* POST /api/scan-directories with body { directories }: the response and
\* the directories read.
ScanResponse(req) ==
  IF ~req.json
  THEN [out |-> ErrorResponse("scan", 500, <<"SyntaxError">>),
        scanned |-> <<>>]
  ELSE IF req.kind # "array"
  THEN [out |-> ErrorResponse("scan", 400, <<"Directories must be an array">>),
        scanned |-> <<>>]
  ELSE ScanLoop(req)

\* The scan requests drawn: a body that is no JSON, `directories` missing,
\* `directories` the string "." (whose iteration yields "."), and lists of
\* directories.
ScanRequests ==
  {[route |-> "scan", json |-> TRUE, kind |-> "array", directories |-> d] :
     d \in {<<>>, << <<".">> >>, <<DB_PATH, MissingPath>>, << <<"~">> >>}}
  \cup {[route |-> "scan", json |-> FALSE, kind |-> "undefined",
          directories |-> <<>>],
         [route |-> "scan", json |-> TRUE, kind |-> "undefined",
          directories |-> <<>>],
         [route |-> "scan", json |-> TRUE, kind |-> "string",
          directories |-> << <<".">> >>]}

\* The databases the server is run on: one record in the first sub-store and
\* two in the second.
ServerDatabases ==
  {d \in Databases :
     /\ d[1] = <<Doc(Num(10))>>
     /\ d[2] \in {<<Doc(Num(2)), Doc(Num(10))>>, <<Doc(Str(<<97>>)), Doc(Num(2))>>}}

\* The search requests drawn on the server: sorted searches for two names,
\* with and without a path parameter and a limit, while the storage engine
\* works, or the root store fails to open or to list its sub-stores, or the
\* second sub-store fails.
ServerSearches ==
  {[route |-> "search", dbName |-> n, customPath |-> c, query |-> <<>>,
    filterField |-> "", filterOperator |-> "", filterValue |-> <<>>,
    sortBy |-> "price", sortOrder |-> "desc", limit |-> l,
    openThrows |-> e.openThrows, keysThrows |-> e.keysThrows,
    subThrows |-> e.subThrows] :
     n \in {"data", "shop"}, c \in {<<>>, OtherPath}, l \in {0, 1},
     e \in {f \in Failures : f.subThrows \in {<<0, 0>>, <<0, -1>>}}}

\* The bookmarks file at startup: none, or one bookmark.
StartupBookmarks ==
  {<<>>} \cup {<<[name |-> "data", path |-> DB_PATH, createdAt |-> t]>> :
                 t \in Instants}

InitServer ==
  /\ stores \in ServerDatabases
  /\ naming = PlainNaming
  /\ activeDatabases = EmptyRegistry
  /\ handles = <<>>
  /\ bookmarksFile \in StartupBookmarks
  /\ bookmarks = bookmarksFile
  /\ request = NoRequest
  /\ response = NoResponse
  /\ opened = FALSE
  /\ logged = <<>>
  /\ scanned = <<>>
  /\ again = <<>>
  /\ call = <<>>
  /\ ret = <<>>
  /\ tasks = <<>>

\* The load-database handler serves one request.
LoadDatabase ==
  /\ request = NoRequest
  /\ \E req \in LoadRequests :
       LET served == LoadResponse(activeDatabases, handles, req) IN
         /\ Len(served.handles) <= MaxLoads
         /\ request' = req
         /\ response' = served.out
         /\ activeDatabases' = served.registry
         /\ handles' = served.handles
         /\ opened' = served.opened
  /\ UNCHANGED <<stores, naming, bookmarks, bookmarksFile, logged, scanned,
                 again, call, ret, tasks>>

\* The add-bookmark handler serves one request.
AddBookmark ==
  /\ request = NoRequest
  /\ \E req \in BookmarkRequests :
       LET served == BookmarkResponse(bookmarks, bookmarksFile, req) IN
         /\ Len(served.bookmarks) <= MaxBookmarks
         /\ request' = req
         /\ response' = served.out
         /\ bookmarks' = served.bookmarks
         /\ bookmarksFile' = served.file
  /\ UNCHANGED <<stores, naming, activeDatabases, handles, opened, logged,
                 scanned, again, call, ret, tasks>>

\* The scan-directories handler serves one request.
ScanDirectories ==
  /\ request = NoRequest
  /\ \E req \in ScanRequests :
       LET served == ScanResponse(req) IN
         /\ request' = req
         /\ response' = served.out
         /\ scanned' = served.scanned
  /\ UNCHANGED <<stores, naming, activeDatabases, handles, bookmarks,
                 bookmarksFile, opened, logged, again, call, ret, tasks>>

\* The search handler serves one request.
ServeSearch ==
  /\ request = NoRequest
  /\ \E req \in ServerSearches :
       /\ request' = req
       /\ LET served == SearchResponse(activeDatabases, req) IN
            /\ response' = served.out
            /\ opened' = served.opened
            /\ logged' = served.logged
            /\ activeDatabases' = served.registry
            /\ handles' = served.handles
  /\ UNCHANGED <<stores, naming, bookmarks, bookmarksFile, scanned, again,
                 call, ret, tasks>>

\* The client sends the search request it was just answered once more: the
\* handler serves it again, and the first response is kept beside the
\* second.
SearchAgain ==
  /\ request # NoRequest /\ request.route = "search"
  /\ again = <<>>
  /\ again' = <<response>>
  /\ LET served == SearchResponse(activeDatabases, request) IN
       /\ response' = served.out
       /\ opened' = served.opened
       /\ logged' = served.logged
       /\ activeDatabases' = served.registry
       /\ handles' = served.handles
  /\ UNCHANGED <<stores, naming, bookmarks, bookmarksFile, request, scanned,
                 call, ret, tasks>>

NextServer ==
  \/ LoadDatabase
  \/ AddBookmark
  \/ ScanDirectories
  \/ ServeSearch
  \/ SearchAgain
  \/ Deliver

SpecServer == InitServer /\ [][NextServer]_vars

\* ------------------------------------------------------------ the bookmarks

\* Most bookmarks in the list.
MaxSaved == 2

\* The paths bookmarked.
BookmarkPaths == {DB_PATH, OtherPath, FilePath}

\* bookmarks.splice(index, 1) with 0 <= index < bookmarks.length
Spliced(list, index) ==
  SubSeq(list, 1, index) \o SubSeq(list, index + 2, Len(list))

\* isNaN(index) || index < 0 || index >= bookmarks.length, of the value
\* parseInt(req.params.index) returned: NaN or an integer.
InvalidIndex(list, index) ==
  index.nan \/ index.n < 0 \/ index.n >= Len(list)

\* DELETE /api/bookmarks/:index: the response, the list and the file after
\* it.  The bookmark is removed before the list is saved.
DeleteResponse(list, file, req) ==
  LET spliced == Spliced(list, req.index.n) IN
    IF InvalidIndex(list, req.index)
    THEN [out |-> ErrorResponse("unbookmark", 400,
                                <<"Invalid bookmark index">>),
          bookmarks |-> list, file |-> file]
    ELSE IF req.saveThrows # ""
    THEN [out |-> ErrorResponse("unbookmark", 500, <<req.saveThrows>>),
          bookmarks |-> spliced, file |-> file]
    ELSE [out |-> [route |-> "unbookmark", status |-> 200, error |-> <<>>,
                   message |-> "Bookmark deleted"],
          bookmarks |-> spliced, file |-> spliced]

\* The add-bookmark requests drawn: every path bookmarked and none, with and
\* without a name, the file saved or not, and a body that is no JSON object.
PostRequests ==
  {[route |-> "bookmark", json |-> TRUE, path |-> p, name |-> n, now |-> t,
    saveThrows |-> e] :
     p \in {<<>>} \cup BookmarkPaths, n \in {"", "shop"}, t \in Instants,
     e \in {"", "ENOSPC"}}
  \cup {[route |-> "bookmark", json |-> FALSE, path |-> <<>>, name |-> "",
          now |-> t, saveThrows |-> ""] : t \in Instants}

\* The delete-bookmark requests drawn: every index of the list, one before
\* the first, one after the last, and one that is no number.
DeleteRequests ==
  {[route |-> "unbookmark", index |-> i, saveThrows |-> e] :
     i \in {[nan |-> TRUE, n |-> 0]}
           \cup {[nan |-> FALSE, n |-> k] : k \in -1..MaxSaved},
     e \in {"", "ENOSPC"}}

\* loadBookmarks() at startup: the bookmarks of the file, none or one.
SavedAtStartup ==
  {<<>>} \cup {<<[name |-> LastSegment(p), path |-> p, createdAt |-> t]>> :
                 p \in BookmarkPaths, t \in Instants}

InitBookmarks ==
  /\ stores \in ServerDatabases
  /\ naming = PlainNaming
  /\ activeDatabases = EmptyRegistry
  /\ handles = <<>>
  /\ bookmarksFile \in SavedAtStartup
  /\ bookmarks = bookmarksFile
  /\ request = NoRequest
  /\ response = NoResponse
  /\ opened = FALSE
  /\ logged = <<>>
  /\ scanned = <<>>
  /\ again = <<>>
  /\ call = <<>>
  /\ ret = <<>>
  /\ tasks = <<>>

\* The add-bookmark handler serves one request, one after another.
PostBookmark ==
  /\ request = NoRequest
  /\ \E req \in PostRequests :
       LET served == BookmarkResponse(bookmarks, bookmarksFile, req) IN
         /\ Len(served.bookmarks) <= MaxSaved
         /\ request' = req
         /\ response' = served.out
         /\ bookmarks' = served.bookmarks
         /\ bookmarksFile' = served.file
  /\ UNCHANGED <<stores, naming, activeDatabases, handles, opened, logged,
                 scanned, again, call, ret, tasks>>

\* The delete-bookmark handler serves one request.
DeleteBookmark ==
  /\ request = NoRequest
  /\ \E req \in DeleteRequests :
       LET served == DeleteResponse(bookmarks, bookmarksFile, req) IN
         /\ request' = req
         /\ response' = served.out
         /\ bookmarks' = served.bookmarks
         /\ bookmarksFile' = served.file
  /\ UNCHANGED <<stores, naming, activeDatabases, handles, opened, logged,
                 scanned, again, call, ret, tasks>>

NextBookmarks == PostBookmark \/ DeleteBookmark \/ Deliver

SpecBookmarks == InitBookmarks /\ [][NextBookmarks]_vars

\* ------------------------------------------- the bookmarks, concurrently

\* Most requests received in one run.
MaxTasks == 2

\* The add-bookmark and delete-bookmark requests that are served
\* concurrently.
ConcurrentPosts ==
  {req \in PostRequests :
     req.name = "" /\ req.path \in {<<>>, DB_PATH, OtherPath}}
ConcurrentDeletes ==
  {req \in DeleteRequests : ~req.index.nan /\ req.index.n \in {0, 1}}

\* A handler suspended at an await: its request, the await it is at ("json"
\* for req.json(), "stat" for stat(), "write" for Bun.write, "done" once it
\* has answered), the content it handed to Bun.write and its answer.
Task(req, pc, content, out) ==
  [req |-> req, pc |-> pc, content |-> content, out |-> out]

\* An add-bookmark request arrives: the handler awaits req.json().
BookmarkArrives ==
  /\ Len(tasks) < MaxTasks
  /\ \E req \in ConcurrentPosts :
       tasks' = Append(tasks, Task(req, "json", <<>>, NoResponse))
  /\ UNCHANGED <<stores, naming, activeDatabases, handles, bookmarks,
                 bookmarksFile, request, response, opened, logged, scanned,
                 again, call, ret>>

\* req.json() has settled: the handler checks the body, pushes the bookmark,
\* hands the list to Bun.write and awaits it, or answers with an error.
BookmarkParsed ==
  \E k \in 1..Len(tasks) :
    /\ tasks[k].pc = "json"
    /\ LET req == tasks[k].req
           served == BookmarkResponse(bookmarks, bookmarksFile,
                                      [req EXCEPT !.saveThrows = ""])
       IN IF served.out.status = 200
          THEN /\ bookmarks' = served.bookmarks
               /\ tasks' = [tasks EXCEPT ![k] =
                              Task(req, "write", served.bookmarks,
                                   served.out)]
               /\ UNCHANGED <<request, response>>
          ELSE /\ tasks' = [tasks EXCEPT ![k] =
                              Task(req, "done", <<>>, served.out)]
               /\ request' = req
               /\ response' = served.out
               /\ UNCHANGED bookmarks
    /\ UNCHANGED <<stores, naming, activeDatabases, handles, bookmarksFile,
                   opened, logged, scanned, again, call, ret>>

\* A delete-bookmark request arrives: the handler checks the index, removes
\* the bookmark, hands the list to Bun.write and awaits it, or answers with
\* an error.
DeleteArrives ==
  /\ Len(tasks) < MaxTasks
  /\ \E req \in ConcurrentDeletes :
       LET served == DeleteResponse(bookmarks, bookmarksFile,
                                    [req EXCEPT !.saveThrows = ""])
       IN IF served.out.status = 200
          THEN /\ bookmarks' = served.bookmarks
               /\ tasks' = Append(tasks, Task(req, "write", served.bookmarks,
                                              served.out))
               /\ UNCHANGED <<request, response>>
          ELSE /\ tasks' = Append(tasks, Task(req, "done", <<>>, served.out))
               /\ request' = req
               /\ response' = served.out
               /\ UNCHANGED bookmarks
  /\ UNCHANGED <<stores, naming, activeDatabases, handles, bookmarksFile,
                 opened, logged, scanned, again, call, ret>>

\* A Bun.write settles, in whatever order the writes were issued: the file
\* holds its content and the handler answers, or it throws and the handler
\* answers with status 500.
WriteCompletes ==
  \E k \in 1..Len(tasks) :
    /\ tasks[k].pc = "write"
    /\ LET req == tasks[k].req
           out == IF req.saveThrows # ""
                  THEN ErrorResponse(req.route, 500, <<req.saveThrows>>)
                  ELSE tasks[k].out
       IN /\ bookmarksFile' =
               IF req.saveThrows # "" THEN bookmarksFile
               ELSE tasks[k].content
          /\ tasks' = [tasks EXCEPT ![k] = Task(req, "done", <<>>, out)]
          /\ request' = req
          /\ response' = out
    /\ UNCHANGED <<stores, naming, activeDatabases, handles, bookmarks,
                   opened, logged, scanned, again, call, ret>>

NextSaving ==
  \/ BookmarkArrives
  \/ BookmarkParsed
  \/ DeleteArrives
  \/ WriteCompletes

SpecSaving == InitBookmarks /\ [][NextSaving]_vars

\* ------------------------------------------------------- the key listing

\* const limit = parseInt(url.searchParams.get("limit") || "1000")
DefaultListLimit == 1000
ListLimitOf(req) == IF req.limit = 0 THEN DefaultListLimit ELSE req.limit

\* allKeys.push(`${String(key)}:${String(recordKey)}`) for each record of
\* each sub-store; a sub-store that throws adds nothing.
RECURSIVE ListAll(_, _, _, _)
ListAll(keys, content, subThrows, i) ==
  IF i > Len(keys) THEN <<>>
  ELSE (IF subThrows[i] # 0 THEN <<>>
        ELSE [n \in 1..Len(content[i]) |->
                ComposeKey(keys[i], naming.keys[i][n])])
       \o ListAll(keys, content, subThrows, i + 1)

\* GET /api/databases/:dbName/records: the keys of all records, cut to the
\* limit.  Whatever open() or getKeys() throws is answered with status 500.
ListResponse(registry, req) ==
  LET dbConfig == registry[req.dbName]
      dbPath == IF req.customPath # <<>> THEN req.customPath
                ELSE IF dbConfig.path # <<>> THEN dbConfig.path
                ELSE DB_PATH
      cached == Cached(dbConfig)
      readPath == IF cached THEN dbConfig.path ELSE dbPath
      allKeys == ListAll(KeysAt(readPath), StoresAt(readPath), req.subThrows, 1)
      limitedKeys == Take(allKeys, ListLimitOf(req))
  IN IF ~cached /\ req.openThrows # ""
     THEN [out |-> ErrorResponse("records", 500, <<req.openThrows>>),
           opened |-> FALSE]
     ELSE IF cached /\ handles[dbConfig.dbHandle].closed
     THEN [out |-> ErrorResponse("records", 500, <<"closed">>),
           opened |-> FALSE]
     ELSE IF req.keysThrows # ""
     THEN [out |-> ErrorResponse("records", 500, <<req.keysThrows>>),
           opened |-> ~cached]
     ELSE [out |-> [route |-> "records", status |-> 200, error |-> <<>>,
                    keys |-> limitedKeys, count |-> Len(limitedKeys)],
           opened |-> ~cached]

\* The names a sub-store can bear and the keys a record can have: "a", "a:b",
\* "ad" and "b:c", "c", "k1".
NamesDrawn == {<<97>>, <<97, 58, 98>>, <<97, 100>>}
KeysDrawn == {<<98, 58, 99>>, <<99>>, <<107, 49>>}

\* The sequences of at most k strings of a set in ascending order, none
\* twice: what getKeys() and getRange() list.
RECURSIVE Ascending(_, _)
Ascending(set, k) ==
  IF k = 0 THEN {<<>>}
  ELSE LET shorter == Ascending(set, k - 1)
           longest == {q \in shorter : Len(q) = k - 1}
           Fits(q, x) == q = <<>> \/ StringLess(q[Len(q)], x)
       IN shorter
          \cup {Append(q, x) : <<q, x>> \in
                  {t \in longest \X set : Fits(t[1], t[2])}}

\* The namings drawn: two sub-stores, at most MaxRecords records in all.
Namings ==
  {[names |-> ns, keys |-> ks] :
     ns \in {q \in Ascending(NamesDrawn, 2) : Len(q) = 2},
     ks \in {f \in [StoreIds -> Ascending(KeysDrawn, 2)] :
               Len(f[1]) + Len(f[2]) <= MaxRecords}}

\* The listing and search requests drawn on these databases.
ListRequests ==
  {[route |-> "records", dbName |-> "data", customPath |-> <<>>, limit |-> l,
    openThrows |-> e.openThrows, keysThrows |-> e.keysThrows,
    subThrows |-> e.subThrows] : l \in Limits, e \in Failures}
KeySearches ==
  {[route |-> "search", dbName |-> "data", customPath |-> <<>>,
    query |-> <<>>, filterField |-> "", filterOperator |-> "",
    filterValue |-> <<>>, sortBy |-> "", sortOrder |-> "", limit |-> l,
    openThrows |-> "", keysThrows |-> "",
    subThrows |-> [i \in StoreIds |-> 0]] : l \in Limits}

InitKeys ==
  /\ naming \in Namings
  /\ stores = [i \in StoreIds |->
                 [n \in 1..Len(naming.keys[i]) |-> Doc(Num(2))]]
  /\ activeDatabases \in {EmptyRegistry, LoadedRegistry}
  /\ handles = HandlesOf(activeDatabases)
  /\ bookmarks = <<>>
  /\ bookmarksFile = <<>>
  /\ request = NoRequest
  /\ response = NoResponse
  /\ opened = FALSE
  /\ logged = <<>>
  /\ scanned = <<>>
  /\ again = <<>>
  /\ call = <<>>
  /\ ret = <<>>
  /\ tasks = <<>>

\* The key-listing handler serves one request.
ListKeys ==
  /\ request = NoRequest
  /\ \E req \in ListRequests :
       LET served == ListResponse(activeDatabases, req) IN
         /\ request' = req
         /\ response' = served.out
         /\ opened' = served.opened
  /\ UNCHANGED <<stores, naming, activeDatabases, handles, bookmarks,
                 bookmarksFile, logged, scanned, again, call, ret, tasks>>

\* The search handler serves one request.
SearchKeys ==
  /\ request = NoRequest
  /\ \E req \in KeySearches :
       /\ request' = req
       /\ LET served == SearchResponse(activeDatabases, req) IN
            /\ response' = served.out
            /\ opened' = served.opened
            /\ logged' = served.logged
            /\ activeDatabases' = served.registry
            /\ handles' = served.handles
  /\ UNCHANGED <<stores, naming, bookmarks, bookmarksFile, scanned, again,
                 call, ret, tasks>>

NextKeys == ListKeys \/ SearchKeys \/ Deliver

SpecKeys == InitKeys /\ [][NextKeys]_vars

\* ------------------------------------------------------ the record lookup

\* key.includes(':')
HasColon(key) == \E k \in 1..Len(key) : key[k] = 58

\* The position of the first ':' of a key that has one.
FirstColon(key) ==
  CHOOSE k \in 1..Len(key) :
    key[k] = 58 /\ \A j \in 1..(k - 1) : key[j] # 58

\* parts[0] and parts.slice(1).join(':') of key.split(':')
SubDbNameOf(key) == SubSeq(key, 1, FirstColon(key) - 1)
ActualKeyOf(key) == SubSeq(key, FirstColon(key) + 1, Len(key))

\* The positions of a sub-store name among the names, of a native key among
\* the keys of the i-th sub-store: at most one each, as the engine keeps
\* names and keys unique.
NamedAs(names, name) == {i \in 1..Len(names) : names[i] = name}
KeyedAs(content, i, key) ==
  {n \in 1..Len(content[i]) : naming.keys[i][n] = key}

\* The answers of the record lookup.
RecordFound(key, value) ==
  [route |-> "record", status |-> 200, error |-> <<>>, key |-> key,
   value |-> value]
RecordNotFound == ErrorResponse("record", 404, <<"Record not found">>)

\* The loop over the sub-stores for a key without ':': the first sub-store
\* that holds the key answers; one that throws is skipped.
RECURSIVE FirstHolding(_, _, _, _, _)
FirstHolding(names, content, subThrows, key, i) ==
  IF i > Len(names) THEN RecordNotFound
  ELSE IF subThrows[i] = 0 /\ KeyedAs(content, i, key) # {}
  THEN RecordFound(key, content[i][CHOOSE n \in KeyedAs(content, i, key) : TRUE])
  ELSE FirstHolding(names, content, subThrows, key, i + 1)

\* GET /api/databases/:dbName/records/:key.  A key with ':' is split at its
\* first ':' into a sub-store name and a native key; openDB of a name the
\* database does not hold creates an empty sub-store or throws (absent), and
\* whatever is thrown is answered with status 500.  A key without ':' is
\* looked up in the root store, which holds no record, and then in each
\* sub-store.
LookupResponse(registry, req) ==
  LET dbConfig == registry[req.dbName]
      dbPath == IF req.customPath # <<>> THEN req.customPath
                ELSE IF dbConfig.path # <<>> THEN dbConfig.path
                ELSE DB_PATH
      cached == Cached(dbConfig)
      readPath == IF cached THEN dbConfig.path ELSE dbPath
      names == KeysAt(readPath)
      content == StoresAt(readPath)
      failed(cause) == ErrorResponse("record", 500, <<cause>>)
  IN IF ~cached /\ req.openThrows # ""
     THEN [out |-> failed(req.openThrows), opened |-> FALSE]
     ELSE IF cached /\ handles[dbConfig.dbHandle].closed
     THEN [out |-> failed("closed"), opened |-> FALSE]
     ELSE IF HasColon(req.key)
     THEN LET subDbName == SubDbNameOf(req.key)
              fullKey == ActualKeyOf(req.key)
              at == NamedAs(names, subDbName)
              i == CHOOSE j \in at : TRUE
              held == KeyedAs(content, i, fullKey)
          IN [out |-> IF at = {}
                      THEN IF req.absent = "throws"
                           THEN failed("MDB_NOTFOUND")
                           ELSE RecordNotFound
                      ELSE IF req.subThrows[i] # 0
                      THEN failed("MDB_READERS_FULL")
                      ELSE IF held = {}
                      THEN RecordNotFound
                      ELSE RecordFound(req.key,
                                       content[i][CHOOSE n \in held : TRUE]),
              opened |-> ~cached]
     ELSE [out |-> IF req.keysThrows # ""
                   THEN failed(req.keysThrows)
                   ELSE FirstHolding(names, content, req.subThrows, req.key,
                                     1),
           opened |-> ~cached]

\* The composed keys a response of the search or of the key listing holds.
KeysReturned(resp) ==
  IF resp.route = "records" /\ resp.status = 200
  THEN {resp.keys[k] : k \in 1..Len(resp.keys)}
  ELSE IF resp.route = "search"
  THEN {resp.results[k].key : k \in 1..Len(resp.results)}
  ELSE {}

\* loadRecordDetails(key) of the client: the lookup of a key the response
\* holds, on the same database.
LookupsOf(req, resp) ==
  {[route |-> "record", dbName |-> req.dbName, customPath |-> req.customPath,
    key |-> k, returned |-> TRUE, openThrows |-> "", keysThrows |-> "",
    subThrows |-> [i \in StoreIds |-> 0], absent |-> a] :
     k \in KeysReturned(resp), a \in {"created", "throws"}}

\* The lookups of a key that no response gave: the native keys as they are,
\* while the storage engine works or fails.
DirectLookups ==
  {[route |-> "record", dbName |-> "data", customPath |-> <<>>, key |-> k,
    returned |-> FALSE, openThrows |-> e.openThrows,
    keysThrows |-> e.keysThrows, subThrows |-> e.subThrows,
    absent |-> "created"] :
     k \in {q \in KeysDrawn : ~HasColon(q)}, e \in Failures}

\* The databases looked up in: the first sub-store holds documents of price
\* 2, the second of price 10.
InitLookup ==
  /\ naming \in Namings
  /\ stores = [i \in StoreIds |->
                 [n \in 1..Len(naming.keys[i]) |->
                    IF i = 1 THEN Doc(Num(2)) ELSE Doc(Num(10))]]
  /\ activeDatabases \in {EmptyRegistry, LoadedRegistry}
  /\ handles = HandlesOf(activeDatabases)
  /\ bookmarks = <<>>
  /\ bookmarksFile = <<>>
  /\ request = NoRequest
  /\ response = NoResponse
  /\ opened = FALSE
  /\ logged = <<>>
  /\ scanned = <<>>
  /\ again = <<>>
  /\ call = <<>>
  /\ ret = <<>>
  /\ tasks = <<>>

\* The client looks up a key of the response it was just given.
LookupReturned ==
  /\ request # NoRequest
  /\ \E req \in LookupsOf(request, response) :
       LET served == LookupResponse(activeDatabases, req) IN
         /\ request' = req
         /\ response' = served.out
         /\ opened' = served.opened
  /\ UNCHANGED <<stores, naming, activeDatabases, handles, bookmarks,
                 bookmarksFile, logged, scanned, again, call, ret, tasks>>

\* The record-lookup handler serves a request for a native key.
LookupRecord ==
  /\ request = NoRequest
  /\ \E req \in DirectLookups :
       LET served == LookupResponse(activeDatabases, req) IN
         /\ request' = req
         /\ response' = served.out
         /\ opened' = served.opened
  /\ UNCHANGED <<stores, naming, activeDatabases, handles, bookmarks,
                 bookmarksFile, logged, scanned, again, call, ret, tasks>>

NextLookup ==
  \/ ListKeys
  \/ SearchKeys
  \/ LookupReturned
  \/ LookupRecord
  \/ Deliver

SpecLookup == InitLookup /\ [][NextLookup]_vars

\* -------------------------------------------- the registry, concurrently

\* The load-database requests served concurrently.
ConcurrentLoads ==
  {req \in LoadRequests :
     /\ req.path \in {<<>>, MissingPath, DB_PATH}
     /\ req.openThrows = ""
     /\ req.path # DB_PATH => (req.name = "" /\ req.keysThrows = "")}

\* The search, key-listing and record-lookup requests served between them:
\* for each name a load can register, all records, all keys, the record
\* "ad:k1".
ConcurrentSearches ==
  {req \in ServerSearches :
     /\ req.customPath = <<>> /\ req.limit = 0
     /\ req.openThrows = "" /\ req.keysThrows = ""
     /\ req.subThrows = <<0, 0>>}
ConcurrentListings ==
  {[route |-> "records", dbName |-> n, customPath |-> <<>>, limit |-> 0,
    openThrows |-> "", keysThrows |-> "",
    subThrows |-> [i \in StoreIds |-> 0]] : n \in {"data", "shop"}}
ConcurrentLookups ==
  {[route |-> "record", dbName |-> n, customPath |-> <<>>,
    key |-> ComposeKey(SubStoreNames[1], NativeKey(1)), returned |-> FALSE,
    openThrows |-> "", keysThrows |-> "",
    subThrows |-> [i \in StoreIds |-> 0], absent |-> "created"] :
     n \in {"data", "shop"}}

\* A load-database request arrives: the handler awaits req.json().
LoadArrives ==
  /\ Len(tasks) < MaxTasks
  /\ \E req \in ConcurrentLoads :
       tasks' = Append(tasks, Task(req, "json", <<>>, NoResponse))
  /\ UNCHANGED <<stores, naming, activeDatabases, handles, bookmarks,
                 bookmarksFile, request, response, opened, logged, scanned,
                 again, call, ret>>

\* req.json() has settled: the handler answers a body without a path with
\* an error, or awaits stat(absolutePath).
LoadParsed ==
  \E k \in 1..Len(tasks) :
    /\ tasks[k].pc = "json"
    /\ LET req == tasks[k].req
           served == LoadResponse(activeDatabases, handles, req)
       IN IF ~req.json \/ req.path = <<>>
          THEN /\ tasks' = [tasks EXCEPT ![k] =
                              Task(req, "done", <<>>, served.out)]
               /\ request' = req
               /\ response' = served.out
               /\ opened' = served.opened
          ELSE /\ tasks' = [tasks EXCEPT ![k] =
                              Task(req, "stat", <<>>, NoResponse)]
               /\ UNCHANGED <<request, response, opened>>
    /\ UNCHANGED <<stores, naming, activeDatabases, handles, bookmarks,
                   bookmarksFile, logged, scanned, again, call, ret>>

\* stat() has settled: the handler runs to its end without another await;
\* it opens the store, closes the old handle and sets the registry entry in
\* one piece.
LoadStatted ==
  \E k \in 1..Len(tasks) :
    /\ tasks[k].pc = "stat"
    /\ LET req == tasks[k].req
           served == LoadResponse(activeDatabases, handles, req)
       IN /\ tasks' = [tasks EXCEPT ![k] =
                         Task(req, "done", <<>>, served.out)]
          /\ request' = req
          /\ response' = served.out
          /\ activeDatabases' = served.registry
          /\ handles' = served.handles
          /\ opened' = served.opened
    /\ UNCHANGED <<stores, naming, bookmarks, bookmarksFile, logged, scanned,
                   again, call, ret>>

\* The search handler has no await: it serves a request in one piece,
\* between any two steps of the load handlers.
ReadSearch ==
  /\ \E req \in ConcurrentSearches :
       /\ request' = req
       /\ LET served == SearchResponse(activeDatabases, req) IN
            /\ response' = served.out
            /\ opened' = served.opened
            /\ logged' = served.logged
            /\ activeDatabases' = served.registry
            /\ handles' = served.handles
  /\ UNCHANGED <<stores, naming, bookmarks, bookmarksFile, scanned, again,
                 call, ret, tasks>>

\* Nor has the key-listing handler.
ReadKeys ==
  /\ \E req \in ConcurrentListings :
       LET served == ListResponse(activeDatabases, req) IN
         /\ request' = req
         /\ response' = served.out
         /\ opened' = served.opened
  /\ UNCHANGED <<stores, naming, activeDatabases, handles, bookmarks,
                 bookmarksFile, logged, scanned, again, call, ret, tasks>>

\* Nor has the record-lookup handler.
ReadRecord ==
  /\ \E req \in ConcurrentLookups :
       LET served == LookupResponse(activeDatabases, req) IN
         /\ request' = req
         /\ response' = served.out
         /\ opened' = served.opened
  /\ UNCHANGED <<stores, naming, activeDatabases, handles, bookmarks,
                 bookmarksFile, logged, scanned, again, call, ret, tasks>>

NextLoading ==
  \/ LoadArrives
  \/ LoadParsed
  \/ LoadStatted
  \/ ReadSearch
  \/ ReadKeys
  \/ ReadRecord

SpecLoading == InitServer /\ [][NextLoading]_vars

\* ------------------------------------- the predicate and comparator alone

\* The field values drawn for one evaluation: every type typeof tells apart.
FieldValues ==
  {Undefined, Null, Bool(TRUE), Bool(FALSE)}
  \cup {Num(i) : i \in -1..MaxNum}
  \cup {Str(cs) : cs \in Strings}

\* The documents drawn: one with the field, and one without it.
Documents == {Doc(fv) : fv \in FieldValues \ {Undefined}} \cup {EmptyDoc}

\* The operators drawn: the six of the switch and two it does not know.
Operators == {"=", "!=", ">", "<", ">=", "<=", "~", "=="}

\* The literals drawn: the filter is installed for a non-empty one only.
Literals == Strings \ {<<>>}

NoDatabase == [i \in StoreIds |-> <<>>]

InitFilter ==
  /\ stores = NoDatabase
  /\ naming = PlainNaming
  /\ activeDatabases = EmptyRegistry
  /\ handles = <<>>
  /\ bookmarks = <<>>
  /\ bookmarksFile = <<>>
  /\ scanned = <<>>
  /\ again = <<>>
  /\ request = NoRequest
  /\ response = NoResponse
  /\ opened = FALSE
  /\ logged = <<>>
  /\ call \in {[fn |-> "filter", value |-> d, filterField |-> "price",
                filterOperator |-> op, filterValue |-> lit] :
                 d \in Documents, op \in Operators, lit \in Literals}
  /\ ret = <<>>
  /\ tasks = <<>>

\* The library applies the predicate to one record value.
EvalFilter ==
  /\ call # <<>> /\ call.fn = "filter" /\ ret = <<>>
  /\ ret' = <<FilterPredicate(call.value, call.filterField,
                              call.filterOperator, call.filterValue)>>
  /\ UNCHANGED <<stores, naming, activeDatabases, handles, bookmarks,
                 bookmarksFile, request, response, opened, logged, scanned,
                 again, call, tasks>>

NextFilter == EvalFilter

SpecFilter == InitFilter /\ [][NextFilter]_vars

InitSort ==
  /\ stores = NoDatabase
  /\ naming = PlainNaming
  /\ activeDatabases = EmptyRegistry
  /\ handles = <<>>
  /\ bookmarks = <<>>
  /\ bookmarksFile = <<>>
  /\ scanned = <<>>
  /\ again = <<>>
  /\ request = NoRequest
  /\ response = NoResponse
  /\ opened = FALSE
  /\ logged = <<>>
  /\ call \in {[fn |-> "sort", a |-> a, b |-> b, sortBy |-> "price",
                sortOrder |-> o] :
                 a \in Documents, b \in Documents, o \in {"asc", "desc"}}
  /\ ret = <<>>
  /\ tasks = <<>>

\* The library applies the comparator to two record values.
EvalSort ==
  /\ call # <<>> /\ call.fn = "sort" /\ ret = <<>>
  /\ ret' = <<Compare(call.a, call.b, call.sortBy, call.sortOrder)>>
  /\ UNCHANGED <<stores, naming, activeDatabases, handles, bookmarks,
                 bookmarksFile, request, response, opened, logged, scanned,
                 again, call, tasks>>

NextSort == EvalSort

SpecSort == InitSort /\ [][NextSort]_vars

\* ===================================================================
\* Properties of the filter predicate (SpecFilter)
\* ===================================================================

\* What the claims mean by their words, stated without the handler's code.

\* Two strings are equal up to the case of their letters.
UpperUnit(c) == IF c >= 97 /\ c <= 122 THEN c - 32 ELSE c
SameIgnoringCase(a, b) ==
  /\ Len(a) = Len(b)
  /\ \A i \in 1..Len(a) : UpperUnit(a[i]) = UpperUnit(b[i])

\* The literal without the white space around it.
Ink(lit) == {i \in 1..Len(lit) : ~IsWhiteSpace(lit[i])}
Core(lit) ==
  IF Ink(lit) = {} THEN <<>>
  ELSE SubSeq(lit, CHOOSE i \in Ink(lit) : \A j \in Ink(lit) : i <= j,
                   CHOOSE i \in Ink(lit) : \A j \in Ink(lit) : j <= i)

RECURSIVE Pow10(_)
Pow10(k) == IF k = 0 THEN 1 ELSE 10 * Pow10(k - 1)

\* The number a run of digits denotes: each digit weighs its power of ten.
RECURSIVE Weighted(_, _)
Weighted(ds, i) ==
  IF i > Len(ds) THEN 0
  ELSE (ds[i] - 48) * Pow10(Len(ds) - i) + Weighted(ds, i + 1)

\* The literal parses as a number: it is a decimal numeral, signed or not,
\* with white space around it at most.
ParsesAsNumber(lit) ==
  LET c == Core(lit) IN
  /\ c # <<>>
  /\ \/ \A i \in 1..Len(c) : c[i] \in 48..57
     \/ /\ Len(c) > 1 /\ c[1] \in {43, 45}
        /\ \A i \in 2..Len(c) : c[i] \in 48..57

\* The number it denotes.
NumberDenoted(lit) ==
  LET c == Core(lit) IN
  IF c[1] = 45 THEN 0 - Weighted(Tail(c), 1)
  ELSE IF c[1] = 43 THEN Weighted(Tail(c), 1)
  ELSE Weighted(c, 1)

\* a comes before b in lexicographic order of the code units.
LexBefore(a, b) ==
  \E k \in 0..Min(Len(a), Len(b)) :
    /\ \A i \in 1..k : a[i] = b[i]
    /\ \/ k = Len(a) /\ k < Len(b)
       \/ k < Len(a) /\ k < Len(b) /\ a[k + 1] < b[k + 1]

\* The comparison an operator names, on strings and on numbers.
StringComparison(op, a, b) ==
  CASE op = "=" -> a = b
    [] op = "!=" -> a # b
    [] op = ">" -> LexBefore(b, a)
    [] op = "<" -> LexBefore(a, b)
    [] op = ">=" -> a = b \/ LexBefore(b, a)
    [] op = "<=" -> a = b \/ LexBefore(a, b)
NumberComparison(op, x, y) ==
  CASE op = "=" -> x = y
    [] op = "!=" -> x # y
    [] op = ">" -> x > y
    [] op = "<" -> x < y
    [] op = ">=" -> x >= y
    [] op = "<=" -> x <= y

OrderingOperators == {">", "<", ">=", "<="}
KnownOperators == {"=", "!="} \cup OrderingOperators

\* One evaluation of the predicate is over.
Filtered == call # <<>> /\ call.fn = "filter" /\ ret # <<>>
FilteredField == GetField(call.value, call.filterField)

\* C6: with operator "=", the predicate is the case-insensitive equality of
\* the field value and the literal when the field value is a string;
\* otherwise the numeric equality when the literal parses as a number and
\* the field value is a number; otherwise the equality of the stringified
\* field value and the literal.
C6_EqualsThreeWays ==
  (Filtered /\ call.filterOperator = "=") =>
    LET fv == FilteredField
        lit == call.filterValue
    IN ret[1] =
         IF fv.t = "string" THEN SameIgnoringCase(fv.s, lit)
         ELSE IF ParsesAsNumber(lit) /\ fv.t = "number"
              THEN fv.n = NumberDenoted(lit)
              ELSE String(fv) = lit

\* C6 witness: a number field matched a numeral that is not its own text
\* (1 against "01" or "1 "): the numeric way decided, where the stringified
\* way would not have matched.
C6_Witness ==
  /\ Filtered /\ call.filterOperator = "="
  /\ FilteredField.t = "number"
  /\ ParsesAsNumber(call.filterValue)
  /\ String(FilteredField) # call.filterValue
  /\ ret[1] = TRUE

\* C7: with an ordering operator, a number field against a literal that
\* parses as a number is compared numerically, and a field value that is not
\* a number is compared as text, in lexicographic order, with the literal.
C7_OrderingNumericOrLexicographic ==
  (Filtered /\ call.filterOperator \in OrderingOperators) =>
    LET fv == FilteredField
        lit == call.filterValue
        op == call.filterOperator
    IN /\ (fv.t = "number" /\ ParsesAsNumber(lit)) =>
            ret[1] = NumberComparison(op, fv.n, NumberDenoted(lit))
       /\ fv.t # "number" =>
            ret[1] = StringComparison(op, String(fv), lit)

\* C7 witness: a number field was compared with a numeral and the numeric
\* verdict is not the textual one (2 > "10" fails, "2" > "10" holds).
C7_Witness ==
  /\ Filtered /\ call.filterOperator \in OrderingOperators
  /\ FilteredField.t = "number" /\ ParsesAsNumber(call.filterValue)
  /\ ret[1] # StringComparison(call.filterOperator, String(FilteredField),
                               call.filterValue)

\* C8 as stated: every combination of one of the six operators with a field
\* value, other than "=" and "!=" on a string field and a number field
\* against a literal that parses as a number, is the case-sensitive
\* comparison of the stringified field value with the literal.
C8_AllElseComparesText ==
  (Filtered /\ call.filterOperator \in KnownOperators) =>
    LET fv == FilteredField
        lit == call.filterValue
        op == call.filterOperator
    IN (~(fv.t = "string" /\ op \in {"=", "!="})
        /\ ~(fv.t = "number" /\ ParsesAsNumber(lit))) =>
         ret[1] = StringComparison(op, String(fv), lit)

\* C8 as amended: as above, except that an ordering operator on a number
\* field with a literal that does not parse as a number matches nothing.
C8_AllElseComparesTextButNumbers ==
  (Filtered /\ call.filterOperator \in KnownOperators) =>
    LET fv == FilteredField
        lit == call.filterValue
        op == call.filterOperator
    IN /\ (/\ ~(fv.t = "string" /\ op \in {"=", "!="})
           /\ ~(fv.t = "number" /\ ParsesAsNumber(lit))
           /\ ~(fv.t = "number" /\ op \in OrderingOperators)) =>
            ret[1] = StringComparison(op, String(fv), lit)
       /\ (/\ fv.t = "number" /\ op \in OrderingOperators
           /\ ~ParsesAsNumber(lit)) =>
            ret[1] = FALSE

\* C8 witness: an ordering operator on a number field with a literal that is
\* no numeral matched nothing, although the field's text compares as the
\* operator asks ("1" < "A").
C8_Witness ==
  /\ Filtered /\ call.filterOperator \in OrderingOperators
  /\ FilteredField.t = "number" /\ ~ParsesAsNumber(call.filterValue)
  /\ StringComparison(call.filterOperator, String(FilteredField),
                      call.filterValue)
  /\ ret[1] = FALSE

\* C9 (the predicate): with an operator that is none of the six, the
\* predicate is true of every record value.
C9_UnknownOperatorIsTrue ==
  (Filtered /\ call.filterOperator \notin KnownOperators) => ret[1] = TRUE

\* C9 witness: an unknown operator let through a record value that the
\* comparison ">" with the same literal rejects.
C9_Witness ==
  /\ Filtered /\ call.filterOperator \notin KnownOperators
  /\ ~FilterPredicate(call.value, call.filterField, ">", call.filterValue)
  /\ ret[1] = TRUE

\* ===================================================================
\* Properties of the sort comparator (SpecSort)
\* ===================================================================

Compared == call # <<>> /\ call.fn = "sort" /\ ret # <<>>
ComparedA == GetField(call.a, call.sortBy)
ComparedB == GetField(call.b, call.sortBy)
OtherOrder(o) == IF o = "asc" THEN "desc" ELSE "asc"

\* C10: on a pair whose sort-field values are both strings or both numbers,
\* the comparator of one direction returns the result of the comparator of
\* the other direction with its sign reversed.
C10_DescReversesAsc ==
  (/\ Compared
   /\ \/ ComparedA.t = "string" /\ ComparedB.t = "string"
      \/ ComparedA.t = "number" /\ ComparedB.t = "number") =>
    ret[1] = 0 - Compare(call.a, call.b, call.sortBy,
                         OtherOrder(call.sortOrder))

\* C10 witness: the descending comparator put the larger of two strings
\* first: it returned a negative number on a pair the ascending one orders
\* the other way.
C10_Witness ==
  /\ Compared /\ call.sortOrder = "desc"
  /\ ComparedA.t = "string" /\ ComparedB.t = "string"
  /\ ret[1] < 0
  /\ Compare(call.a, call.b, call.sortBy, "asc") > 0

\* The pair is of two strings, or of two numbers.
BothStrings == ComparedA.t = "string" /\ ComparedB.t = "string"
BothNumbers == ComparedA.t = "number" /\ ComparedB.t = "number"

\* C11 as stated: for every pair of records, field and direction, the
\* comparator returns a value in {-1, 0, 1}.
C11_ReturnsMinusOneZeroOne ==
  Compared => ret[1] \in {-1, 0, 1}

\* C11 as amended: the comparator returns a value in {-1, 0, 1}, except that
\* for two numbers it returns their difference, the first less the second
\* for "asc" and the second less the first for any other direction.
C11_ReturnsOrderOrDifference ==
  Compared =>
    IF BothNumbers
    THEN ret[1] = IF call.sortOrder = "asc"
                  THEN ComparedA.n - ComparedB.n
                  ELSE ComparedB.n - ComparedA.n
    ELSE ret[1] \in {-1, 0, 1}

\* C11 witness: the ascending comparator returned more than 1 on two numbers
\* that are more than 1 apart.
C11_Witness ==
  /\ Compared /\ call.sortOrder = "asc" /\ BothNumbers
  /\ ComparedA.n > ComparedB.n + 1
  /\ ret[1] > 1

\* C12: on a pair whose sort-field values are not both strings and not both
\* numbers, the comparator returns 0, and so does the comparator of the
\* other direction.
C12_IncomparableAreEqual ==
  (Compared /\ ~BothStrings /\ ~BothNumbers) =>
    /\ ret[1] = 0
    /\ Compare(call.a, call.b, call.sortBy, OtherOrder(call.sortOrder)) = 0
    /\ Compare(call.b, call.a, call.sortBy, call.sortOrder) = 0

\* C12 witness: the descending comparator returned 0 on a record whose field
\* is a number and a record without the field.
C12_Witness ==
  /\ Compared /\ call.sortOrder = "desc"
  /\ ComparedA.t = "number" /\ ComparedB.t = "undefined"
  /\ call.b = EmptyDoc
  /\ ret[1] = 0

\* ===================================================================
\* Properties of the search handler (Spec)
\* ===================================================================

\* A search request was served.
Searched == request # NoRequest /\ request.route = "search"

\* The root store could not be opened (no stored handle spares the open) or
\* its sub-store names could not be listed.
RootFailed ==
  \/ request.keysThrows # ""
  \/ request.openThrows # "" /\ activeDatabases[request.dbName].dbHandle = 0
RootCause ==
  IF request.openThrows # "" /\ activeDatabases[request.dbName].dbHandle = 0
  THEN request.openThrows ELSE request.keysThrows

\* The documents of the i-th sub-store of the database the request reads:
\* the one behind the stored handle, else the one at the path asked for,
\* else the one at DB_PATH; no directory but DB_PATH holds any.
ReadsDataPath ==
  \/ activeDatabases[request.dbName].dbHandle # 0
  \/ request.customPath = <<>>
  \/ request.customPath = DB_PATH
DocsRead(i) == IF ReadsDataPath THEN stores[i] ELSE <<>>

SubStoreFailed(i) == request.subThrows[i] # 0

\* What the library returns for the i-th sub-store, nothing when it throws.
Found(i) ==
  IF SubStoreFailed(i) THEN <<>>
  ELSE LibrarySearch(Records(naming.keys[i], DocsRead(i)),
                     SearchOptions(request))

\* The number of records found in the sub-stores before the i-th.
RECURSIVE FoundBefore(_)
FoundBefore(i) == IF i = 1 THEN 0 ELSE FoundBefore(i - 1) + Len(Found(i - 1))
FoundInAll == FoundBefore(Len(SubStoreNames) + 1)

\* The k-th record of the concatenation, in enumeration order, of what was
\* found in each sub-store, its key rewritten to <name>:<native key>.
Concatenated(k) ==
  LET i == CHOOSE j \in StoreIds :
             FoundBefore(j) < k /\ k <= FoundBefore(j) + Len(Found(j))
      r == Found(i)[k - FoundBefore(i)]
  IN [key |-> SubStoreNames[i] \o <<58>> \o r.key, value |-> r.value]

\* The results are the first `limit` records of that concatenation.
ResultsAreConcatenation ==
  /\ Len(response.results) = Min(LimitOf(request), FoundInAll)
  /\ \A k \in 1..Len(response.results) : response.results[k] = Concatenated(k)

\* C1: a search with limit N >= 1 returns at most N records.
C1_AtMostLimit ==
  (Searched /\ LimitOf(request) >= 1) =>
    Len(response.results) <= LimitOf(request)

\* C1 witness: more records matched over two sub-stores than the limit
\* allows, and exactly `limit` were returned.
C1_Witness ==
  /\ Searched /\ ~RootFailed /\ request.limit >= 1
  /\ Len(Found(1)) >= 1 /\ Len(Found(2)) >= 1
  /\ FoundInAll > request.limit
  /\ Len(response.results) = request.limit

\* C2: when a sub-store throws, with the reader-slot code or another, the
\* request does not fail, nothing of that sub-store is returned, and what
\* the other sub-stores match is collected as if it were not there.
C2_FailedSubStoreSkipped ==
  (Searched /\ ~RootFailed /\ \E i \in StoreIds : SubStoreFailed(i)) =>
    /\ response.error = <<>>
    /\ response.status = 200
    /\ ResultsAreConcatenation
    /\ \A i \in StoreIds : \A k \in 1..Len(response.results) :
         SubStoreFailed(i) =>
           SubSeq(response.results[k].key, 1, Len(SubStoreNames[i]) + 1)
             # SubStoreNames[i] \o <<58>>

\* C2 witness: the first sub-store threw the reader-slot code, held records,
\* and the records of the second were returned.
C2_Witness ==
  /\ Searched /\ ~RootFailed
  /\ request.subThrows[1] = ReadersFull /\ request.subThrows[2] = 0
  /\ DocsRead(1) # <<>>
  /\ response.results # <<>>
  /\ response.error = <<>>

\* C3: when the root store cannot be opened or its sub-stores cannot be
\* listed, the response carries an error message with the cause in it and
\* no record: empty results, count 0.
C3_RootFailureSurfaced ==
  (Searched /\ RootFailed) =>
    /\ response.error # <<>>
    /\ \E k \in 1..Len(response.error) : response.error[k] = RootCause
    /\ response.results = <<>>
    /\ response.count = 0

\* C3 witness: the store held records and open() threw, no handle being
\* stored.
C3_Witness ==
  /\ Searched /\ RootFailed /\ request.openThrows # ""
  /\ stores[1] # <<>>
  /\ response.error # <<>>

\* The request asks for no filter, no deep search and no sort.
Unfiltered ==
  /\ ~(request.filterField # "" /\ request.filterField # "__none__"
       /\ request.filterValue # <<>>)
  /\ request.query = <<>>
  /\ ~(request.sortBy # "" /\ request.sortBy # "__none__")

\* The number of documents stored in the sub-stores before the i-th.
RECURSIVE StoredBefore(_)
StoredBefore(i) ==
  IF i = 1 THEN 0 ELSE StoredBefore(i - 1) + Len(DocsRead(i - 1))
StoredInAll == StoredBefore(Len(SubStoreNames) + 1)

\* The k-th record met when the sub-stores are read in enumeration order and
\* each in key order.
Encountered(k) ==
  LET i == CHOOSE j \in StoreIds :
             StoredBefore(j) < k /\ k <= StoredBefore(j) + Len(DocsRead(j))
      n == k - StoredBefore(i)
  IN [key |-> SubStoreNames[i] \o <<58>> \o NativeKey(n),
      value |-> DocsRead(i)[n]]

\* C4: the results are the concatenation, in sub-store enumeration order, of
\* what each sub-store returned, each key rewritten to <name>:<native key>,
\* cut to the first `limit` records; without filter, deep search and sort
\* they are the first `limit` records met in enumeration order and, within a
\* sub-store, key order.
C4_ConcatenationInOrder ==
  (Searched /\ ~RootFailed /\ \A i \in StoreIds : ~SubStoreFailed(i)) =>
    /\ ResultsAreConcatenation
    /\ Unfiltered =>
         /\ Len(response.results) = Min(LimitOf(request), StoredInAll)
         /\ \A k \in 1..Len(response.results) :
              response.results[k] = Encountered(k)

\* C4 witness: limit 2, no filter and no sort, one record in the first
\* sub-store and two in the second: the first record of each was returned,
\* in that order.
C4_Witness ==
  /\ Searched /\ ~RootFailed /\ Unfiltered /\ request.limit = 2
  /\ \A i \in StoreIds : ~SubStoreFailed(i)
  /\ Len(DocsRead(1)) = 1 /\ Len(DocsRead(2)) = 2
  /\ Len(response.results) = 2
  /\ response.results[1].key = SubStoreNames[1] \o <<58>> \o NativeKey(1)
  /\ response.results[2].key = SubStoreNames[2] \o <<58>> \o NativeKey(1)

\* C5: in a search response, count is the number of records in results.
C5_CountIsLength ==
  (Searched /\ response.hasResults) =>
    response.count = Len(response.results)

\* C5 witness: a sub-store was skipped, the rest was cut to the limit, and
\* count is what was returned.
C5_Witness ==
  /\ Searched /\ ~RootFailed
  /\ \E i \in StoreIds : SubStoreFailed(i) /\ DocsRead(i) # <<>>
  /\ FoundInAll > LimitOf(request)
  /\ response.count = LimitOf(request)

\* The records of the i-th sub-store that the request's filter, if it has
\* one, lets through: none when the sub-store cannot be read.
FilterAsked ==
  /\ request.filterField # "" /\ request.filterField # "__none__"
  /\ request.filterValue # <<>>
OperatorAsked ==
  IF request.filterOperator = "" THEN "=" ELSE request.filterOperator
LetThrough(i) ==
  {n \in 1..Len(DocsRead(i)) :
     /\ ~SubStoreFailed(i)
     /\ FilterAsked =>
          FilterPredicate(DocsRead(i)[n], request.filterField, OperatorAsked,
                          request.filterValue)}

RECURSIVE LetThroughUpTo(_)
LetThroughUpTo(i) ==
  IF i = 0 THEN 0 ELSE LetThroughUpTo(i - 1) + Cardinality(LetThrough(i))

\* The composed keys of these records.
LetThroughKeys ==
  UNION {{SubStoreNames[i] \o <<58>> \o NativeKey(n) : n \in LetThrough(i)} :
           i \in StoreIds}

\* C14: a search whose query text is empty excludes no record: whatever the
\* other parameters, it returns the records that the filter, if any, lets
\* through, each once, as many as the limit allows.
C14_EmptyQueryExcludesNothing ==
  (Searched /\ ~RootFailed /\ request.query = <<>>) =>
    LET n == Len(response.results) IN
    /\ n = Min(LimitOf(request), LetThroughUpTo(Len(SubStoreNames)))
    /\ \A k \in 1..n : response.results[k].key \in LetThroughKeys
    /\ \A j \in 1..n : \A k \in 1..n :
         j # k => response.results[j].key # response.results[k].key

\* C14 witness: a search with empty query text, under a filter and a sort,
\* returned a record in whose text the query "a" does not occur.
C14_Witness ==
  /\ Searched /\ ~RootFailed /\ request.query = <<>>
  /\ FilterAsked /\ request.sortBy = "price"
  /\ \E k \in 1..Len(response.results) :
       ~DeepMatches(response.results[k].value, <<97>>)

\* C9 (the search): a request whose filter is active with an operator the
\* switch does not know is answered as the same request without its filter.
C9_UnknownOperatorFiltersNothing ==
  (/\ Searched
   /\ FilterActive(request.filterField, request.filterValue)
   /\ request.filterOperator \notin KnownOperators \cup {""}) =>
    response = SearchResponse(activeDatabases,
                              [request EXCEPT !.filterField = ""]).out

\* ===================================================================
\* Properties of sorted searches (SpecSorted)
\* ===================================================================

\* The request asks for a sort, and the direction it is served in.
SortAsked == request.sortBy # "" /\ request.sortBy # "__none__"
Direction == IF request.sortOrder \in {"", "asc"} THEN "asc" ELSE "desc"

\* The sub-store whose name prefixes the key of the k-th result.
StoreOf(k) ==
  CHOOSE i \in StoreIds :
    LET prefix == SubStoreNames[i] \o <<58>> IN
    /\ Len(response.results[k].key) > Len(prefix)
    /\ SubSeq(response.results[k].key, 1, Len(prefix)) = prefix

\* The sort-field value of the k-th result.
SortValue(k) == GetField(response.results[k].value, request.sortBy)

\* The types of the sort-field values of the documents the request reads.
SortFieldTypes ==
  UNION {{GetField(DocsRead(i)[n], request.sortBy).t :
            n \in 1..Len(DocsRead(i))} : i \in StoreIds}

\* All the records live in one sub-store.
InOneSubStore == Cardinality({i \in StoreIds : DocsRead(i) # <<>>}) <= 1

\* C13: when a sort is asked for, the records of each sub-store form one
\* block of the response, the blocks in sub-store enumeration order, and
\* within a block no record is followed by one the comparator puts before
\* it; when all records live in one sub-store and their sort-field values
\* are all numbers, or all strings, the output is non-decreasing for "asc"
\* and non-increasing for any other direction.
C13_SortedPerSubStore ==
  (Searched /\ ~RootFailed /\ SortAsked) =>
    LET n == Len(response.results) IN
    /\ \A k \in 1..(n - 1) : StoreOf(k) <= StoreOf(k + 1)
    /\ \A k \in 1..(n - 1) :
         StoreOf(k) = StoreOf(k + 1) =>
           Compare(response.results[k].value, response.results[k + 1].value,
                   request.sortBy, Direction) <= 0
    /\ (InOneSubStore /\ SortFieldTypes = {"number"}) =>
         \A j \in 1..n : \A k \in 1..n :
           j < k => IF Direction = "asc"
                    THEN SortValue(j).n <= SortValue(k).n
                    ELSE SortValue(j).n >= SortValue(k).n
    /\ (InOneSubStore /\ SortFieldTypes = {"string"}) =>
         \A j \in 1..n : \A k \in 1..n :
           j < k => IF Direction = "asc"
                    THEN LocaleCompare(SortValue(j).s, SortValue(k).s) <= 0
                    ELSE LocaleCompare(SortValue(j).s, SortValue(k).s) >= 0

\* C13 witness: an ascending sort returned the record of the first sub-store
\* before a record of the second with a smaller price, and the two records
\* of the second in the order opposite to their key order: sorted within the
\* sub-store, not across.
C13_Witness ==
  /\ Searched /\ ~RootFailed /\ SortAsked /\ Direction = "asc"
  /\ Len(response.results) = 3
  /\ StoreOf(1) = 1 /\ StoreOf(2) = 2 /\ StoreOf(3) = 2
  /\ SortValue(1) = Num(10) /\ SortValue(2) = Num(2) /\ SortValue(3) = Num(10)
  /\ response.results[2].key = SubStoreNames[2] \o <<58>> \o NativeKey(2)
  /\ response.results[3].key = SubStoreNames[2] \o <<58>> \o NativeKey(1)

\* ===================================================================
\* Properties of the server (SpecServer)
\* ===================================================================

\* The search request was served twice in a row, nothing else in between.
SearchedTwice == Searched /\ again # <<>>

StoredHandle == activeDatabases[request.dbName].dbHandle

\* The number of records in the database at a path.
RecordsAt(path) ==
  IF path = DB_PATH THEN Len(stores[1]) + Len(stores[2]) ELSE 0

\* C17: a search for a name with a stored root handle opens no root handle
\* and reads the database that handle is open on, whatever path the request
\* names and whether or not a store could be opened there (the records read
\* are counted when the handle lists its sub-stores and each of them can be
\* read); a root handle is opened only for a name without a stored handle.
C17_StoredHandleReused ==
  Searched =>
    /\ (StoredHandle # 0) =>
         /\ ~opened
         /\ (request.keysThrows = "" /\ request.subThrows = <<0, 0>>) =>
              /\ response.error = <<>>
              /\ Len(response.results) =
                   Min(LimitOf(request),
                       RecordsAt(handles[StoredHandle].path))
    /\ opened => StoredHandle = 0

\* C17 witness: a search naming another path, at which no store could be
\* opened, was answered with the records of the database the stored handle
\* is open on, and opened nothing.
C17_Witness ==
  /\ Searched /\ StoredHandle # 0
  /\ request.customPath = OtherPath /\ request.openThrows # ""
  /\ handles[StoredHandle].path = DB_PATH
  /\ response.results # <<>>
  /\ ~opened

\* C17 witness of the other half: a search for a name without a stored handle
\* opened one, while another name has a stored handle.
C17_WitnessOpened ==
  /\ Searched /\ StoredHandle = 0 /\ opened
  /\ \E n \in DbNames : activeDatabases[n].dbHandle # 0

\* The body of a request is a JSON object that lacks what the handler needs:
\* `directories` that is no array, or no `path`.
Malformed(req) ==
  \/ req.route = "scan" /\ req.json /\ req.kind # "array"
  \/ req.route \in {"load", "bookmark"} /\ req.json /\ req.path = <<>>

\* The body of a request is no JSON object at all.
Unparsable(req) ==
  req.route \in {"scan", "load", "bookmark"} /\ ~req.json

\* A step that serves a request did no engine work: it scanned no directory,
\* opened no store, closed none, and left the registry, the bookmark list and
\* the bookmarks file as they were.
NoEngineWork ==
  /\ scanned' = <<>>
  /\ opened' = FALSE
  /\ handles' = handles
  /\ activeDatabases' = activeDatabases
  /\ bookmarks' = bookmarks
  /\ bookmarksFile' = bookmarksFile

\* C18: a scan-directories request whose `directories` is not an array, and a
\* load-database or add-bookmark request without `path`, is answered with an
\* error of status 400 and does no engine work; a body that is no JSON object
\* does none either (and is answered with status 500).
C18_MalformedRejectedFirst ==
  [][(request = NoRequest /\ request' # NoRequest) =>
       /\ Malformed(request') =>
            /\ response'.status = 400
            /\ response'.error # <<>>
            /\ NoEngineWork
       /\ Unparsable(request') =>
            /\ response'.status = 500
            /\ response'.error # <<>>
            /\ NoEngineWork]_vars

\* C18 witness: `directories` was the string ".", the working directory holds
\* a database, and the request was refused without reading any directory,
\* while the registry holds a loaded database and the list a bookmark.
C18_Witness ==
  /\ request # NoRequest /\ request.route = "scan"
  /\ request.json /\ request.kind = "string"
  /\ response.status = 400
  /\ scanned = <<>>
  /\ \E n \in DbNames : activeDatabases[n].dbHandle # 0
  /\ bookmarks # <<>>

\* A step serves a search request, for the first time or once more.
ServesSearch == request'.route = "search"

\* C19: a step that serves a search request, answered with records or with an
\* error, leaves every sub-store and its naming, the registry of loaded
\* databases with the handles it stores, the bookmark list and the bookmarks
\* file as they were.
C19_SearchWritesNothing ==
  [][ServesSearch =>
       /\ stores' = stores
       /\ naming' = naming
       /\ activeDatabases' = activeDatabases
       /\ handles' = handles
       /\ bookmarks' = bookmarks
       /\ bookmarksFile' = bookmarksFile]_vars

\* C19 witness: a search for a name the registry does not hold failed to
\* open the store at its path, while the registry holds a loaded database and
\* the list a bookmark.
C19_Witness ==
  /\ Searched /\ StoredHandle = 0
  /\ request.openThrows # "" /\ response.error # <<>>
  /\ \E n \in DbNames : activeDatabases[n].dbHandle # 0
  /\ bookmarks # <<>>

\* C19 witness of the successful search: records were returned for a name
\* the registry does not hold, and the registry still does not hold it.
C19_WitnessAnswered ==
  /\ Searched /\ StoredHandle = 0 /\ opened
  /\ response.results # <<>>
  /\ activeDatabases[request.dbName] = NoConfig
  /\ bookmarks # <<>>

\* A step serves a load-database request that succeeds.
LoadSucceeds == request'.route = "load" /\ response'.status = 200

\* The handles the registry stores, and the name a handle is stored under.
StoredHandles == {activeDatabases[n].dbHandle : n \in DbNames} \ {0}

\* Every stored handle is a handle that was opened and has not been closed,
\* under the name it was registered with, and no two names store the same one.
StoredHandlesOpen ==
  /\ \A n \in DbNames :
       activeDatabases[n].dbHandle # 0 =>
         /\ activeDatabases[n].name = n
         /\ activeDatabases[n].dbHandle \in 1..Len(handles)
         /\ ~handles[activeDatabases[n].dbHandle].closed
  /\ \A n, m \in DbNames :
       (n # m /\ activeDatabases[n].dbHandle # 0) =>
         activeDatabases[n].dbHandle # activeDatabases[m].dbHandle

\* A successful load stores, under its name, the handle it opened on its path,
\* closes the handle that name stored before and no other, and leaves the
\* other names alone.
LoadReplacesHandle ==
  LET n == response'.database.name
      old == activeDatabases[n].dbHandle
      new == activeDatabases'[n].dbHandle
  IN /\ n \in DbNames
     /\ Len(handles') = Len(handles) + 1
     /\ new = Len(handles')
     /\ handles'[new] = [path |-> request'.path, closed |-> FALSE]
     /\ old # 0 => handles'[old].closed
     /\ \A h \in 1..Len(handles) : h # old => handles'[h] = handles[h]
     /\ \A m \in DbNames \ {n} : activeDatabases'[m] = activeDatabases[m]

\* Any other step leaves the registry and every handle opened so far as they
\* were.
RegistryKept ==
  /\ activeDatabases' = activeDatabases
  /\ \A h \in 1..Len(handles) :
       h \in 1..Len(handles') /\ handles'[h] = handles[h]

\* C20: in every state each registered name stores a handle that has not been
\* closed; it is the handle the most recent successful load of that name
\* opened, because only a successful load of a name changes what the name
\* stores, to the handle that load opened; the handle the name stored before
\* is closed by that step, so every handle once stored and since replaced is
\* closed; and a name in the registry stays in it.
C20_RegistryHoldsLatestHandle ==
  /\ []StoredHandlesOpen
  /\ [][/\ IF LoadSucceeds THEN LoadReplacesHandle ELSE RegistryKept
        /\ \A n \in DbNames :
             activeDatabases[n].name # "" => activeDatabases'[n].name # ""
       ]_vars

\* C20 witness: a name was loaded twice; the handle of the first load is
\* closed and the registry stores the open handle of the second, which the
\* answered request opened on its path.
C20_Witness ==
  /\ request # NoRequest /\ request.route = "load" /\ response.status = 200
  /\ Len(handles) = 2
  /\ handles[1].closed /\ ~handles[2].closed
  /\ activeDatabases[response.database.name].dbHandle = 2
  /\ handles[2].path = request.path

\* C20 witness of two names: a load under a second name left the handle of
\* the first name open and stored.
C20_WitnessTwoNames ==
  /\ request # NoRequest /\ request.route = "load" /\ response.status = 200
  /\ StoredHandles = {1, 2}
  /\ ~handles[1].closed /\ ~handles[2].closed

\* A step serves a load-database request that is answered with an error.
LoadRefused == request'.route = "load" /\ response'.status # 200

\* C21: a step that answers a load-database request with an error (no path,
\* no directory at the path, a store that cannot be opened or whose sub-stores
\* cannot be listed) leaves the registry as it was and every handle opened
\* before it as it was, open if it was open.
C21_FailedLoadKeepsRegistry ==
  [][LoadRefused =>
       /\ response'.error # <<>>
       /\ activeDatabases' = activeDatabases
       /\ \A h \in 1..Len(handles) :
            h \in 1..Len(handles') /\ handles'[h].closed = handles[h].closed
     ]_vars

\* C21 witness: a load of a registered name whose store opened but could not
\* list its sub-stores was answered with an error; the name still stores the
\* handle of the earlier load, and that handle is open.
C21_Witness ==
  /\ request # NoRequest /\ request.route = "load"
  /\ response.status = 400 /\ request.keysThrows # ""
  /\ request.path = DB_PATH
  /\ LET n == DbNameOf(request.name, request.path) IN
       /\ n \in DbNames
       /\ activeDatabases[n].dbHandle = 1
       /\ ~handles[1].closed
       /\ Len(handles) = 2

\* ===================================================================
\* Properties of searches of a large sub-store (SpecLarge)
\* ===================================================================

\* The records of the i-th sub-store that satisfy the filter and the deep
\* search of the request, by their positions.
Satisfying(i) ==
  {n \in LetThrough(i) :
     request.query # <<>> => DeepMatches(DocsRead(i)[n], request.query)}

\* The composed keys the response returned.
ReturnedKeys == {response.results[k].key : k \in 1..Len(response.results)}

\* C23: a search response with fewer than `limit` records holds every record
\* of every readable sub-store that satisfies the filter and the deep search.
C23_RoomMeansNothingOmitted ==
  (Searched /\ ~RootFailed /\ Len(response.results) < LimitOf(request)) =>
    \A i \in StoreIds : \A n \in Satisfying(i) :
      naming.names[i] \o <<58>> \o naming.keys[i][n] \in ReturnedKeys

\* ===================================================================
\* Properties of the bookmarks (SpecBookmarks)
\* ===================================================================

\* No two bookmarks of the list have the same path.
DistinctPaths ==
  \A j, k \in 1..Len(bookmarks) :
    bookmarks[j].path = bookmarks[k].path => j = k

\* A step serves an add-bookmark request for a path that is in the list.
AddsPresent ==
  /\ request'.route = "bookmark" /\ request'.json
  /\ \E k \in 1..Len(bookmarks) : bookmarks[k].path = request'.path

\* C25: starting from a list with pairwise distinct paths, after any sequence
\* of add-bookmark and delete-bookmark requests no two bookmarks of the list
\* have the same path, and an add-bookmark request for a path in the list is
\* answered with status 400 and 'Already bookmarked'.
C25_BookmarkPathsDistinct ==
  /\ []DistinctPaths
  /\ [][AddsPresent =>
          /\ response'.status = 400
          /\ response'.error = <<"Already bookmarked">>]_vars

\* C25 witness: with two bookmarks in the list, the first of them other than
\* the first of the file, an add-bookmark request for the path of the second
\* was rejected.
C25_Witness ==
  /\ request # NoRequest /\ request.route = "bookmark"
  /\ response.error = <<"Already bookmarked">>
  /\ Len(bookmarks) = 2
  /\ bookmarks[2].path = request.path
  /\ Len(bookmarksFile) = 2 /\ bookmarksFile[1] # bookmarks[1]

\* A step answers an add-bookmark or delete-bookmark request with an error.
BookmarkRefused ==
  request'.route \in {"bookmark", "unbookmark"} /\ response'.status # 200

\* C26: a step that answers an add-bookmark or delete-bookmark request with
\* an error leaves the bookmark list as it was.
C26_RefusedKeepsList ==
  [][BookmarkRefused => bookmarks' = bookmarks]_vars

\* ===================================================================
\* Properties of concurrent bookmark requests (SpecSaving)
\* ===================================================================

\* Requests were received, and every one of them has been answered without
\* an error.
AllSucceeded ==
  /\ tasks # <<>>
  /\ \A k \in 1..Len(tasks) :
       tasks[k].pc = "done" /\ tasks[k].out.status = 200

\* C27: once every add-bookmark and delete-bookmark request received has
\* been answered without an error, the bookmarks file holds the bookmark
\* list.
C27_FileEqualsList == AllSucceeded => bookmarksFile = bookmarks

\* ===================================================================
\* Properties of the composed keys (SpecKeys)
\* ===================================================================

\* The composed keys of the response: those of the records a search returned,
\* or those a key listing returned.
Listed == request # NoRequest /\ request.route = "records"
ComposedKeys ==
  IF Listed
  THEN IF response.status = 200 THEN response.keys ELSE <<>>
  ELSE IF Searched
  THEN [k \in 1..Len(response.results) |-> response.results[k].key]
  ELSE <<>>

\* C16 as stated: the composed keys of a response are pairwise distinct (each
\* position of a response is another record: another sub-store or another
\* native key).
C16_ComposedKeysUnique ==
  \A j \in 1..Len(ComposedKeys) : \A k \in 1..Len(ComposedKeys) :
    j # k => ComposedKeys[j] # ComposedKeys[k]

\* ===================================================================
\* Properties of the record lookup (SpecLookup)
\* ===================================================================

\* A key that the search or the key listing returned was looked up.
LookedUpReturned ==
  request # NoRequest /\ request.route = "record" /\ request.returned

\* C24: the lookup of a key '<subStoreName>:<nativeKey>' that the search or
\* the key listing returned answers with the value stored under nativeKey in
\* that sub-store, for every sub-store name and native key that compose the
\* key.
C24_LookupReturnsStoredValue ==
  LookedUpReturned =>
    \A i \in StoreIds : \A n \in 1..Len(stores[i]) :
      (naming.names[i] \o <<58>> \o naming.keys[i][n] = request.key) =>
        /\ response.status = 200
        /\ response.value = stores[i][n]

\* ===================================================================
\* Properties of concurrent loads and reads (SpecLoading)
\* ===================================================================

\* A step serves a search, key-listing or record-lookup request.
ServesRead ==
  request'.route \in {"search", "records", "record"} /\ tasks' = tasks

\* The root handle the registry stores, as the step begins, under the name
\* the request asks for: the handle the request reads through, 0 for none.
HandleTaken == activeDatabases[request'.dbName].dbHandle

\* The answer of a read that found its root handle closed.
ReadClosed(resp) ==
  \/ resp.error = <<"Failed to read database: ", "closed">>
  \/ resp.error = <<"closed">>

\* C22: however the search, key-listing, record-lookup and load-database
\* requests interleave, a request that takes a root handle from the registry
\* takes one that no load-database request has closed, and reads through it.
C22_NoReadThroughClosedHandle ==
  [][(ServesRead /\ HandleTaken # 0) =>
       /\ ~handles[HandleTaken].closed
       /\ ~ReadClosed(response')
       /\ response'.status = 200
       /\ ~opened']_vars

\* C22 witness: after a load closed the first handle of a name and stored a
\* second, a search took the second from the registry and returned records.
C22_Witness ==
  /\ Searched /\ StoredHandle = 2
  /\ handles[1].closed /\ ~handles[2].closed
  /\ response.results # <<>>
  /\ \A k \in 1..Len(tasks) : tasks[k].pc = "done"

\* C22 witness of an interleaving: a key listing read through the stored
\* handle while a load of the same name, which will close that handle, is
\* suspended at stat().
C22_WitnessSuspended ==
  /\ Listed /\ StoredHandle = 1
  /\ response.status = 200 /\ response.keys # <<>>
  /\ \E k \in 1..Len(tasks) :
       /\ tasks[k].pc = "stat"
       /\ DbNameOf(tasks[k].req.name, tasks[k].req.path) = request.dbName

====
